---- MODULE Spec2Model ----
(***************************************************************************)
(* A model of trading-engine-core's OHLC backfill engine:                  *)
(*   ohlc/manager.py      OhlcManager.run_worker,                          *)
(*                        OhlcManager._perform_paginated_ohlc_fetch        *)
(*   ohlc/transformer.py  transform_tv_data_to_ohlc_models                 *)
(*   models.py            OHLCModel                                        *)
(* Workers are asyncio tasks: the code between two awaits is atomic, so    *)
(* every action below runs one worker from the completion of one await to  *)
(* the next await.  pc[w] names the await worker w is suspended at.        *)
(***************************************************************************)
EXTENDS Integers, Sequences, FiniteSets, TLC

VARIABLES
    workQueue,          \* redis work queue (dequeue_ohlc_work pops its head)
    failedQueue,        \* redis failed-work queue (enqueue_failed_ohlc_work)
    store,              \* the OHLC table: key -> persisted record
    pc,                 \* per worker: the await it is suspended at
    work_item,          \* per worker: run_worker's local work_item
    api_client,         \* per worker: run_worker's local api_client (0 = None)
    current_start_ts,   \* per worker: the fetch cursor
    ohlc_models,        \* per worker: the batch handed to bulk_upsert_ohlc
    exc,                \* per worker: what is in flight while the finally block runs
    result,             \* per worker: how run_worker ended
    clients,            \* every client instance constructed so far
    log,                \* per worker: log lines written for the current item
    raised,             \* per worker: the calls that raised for the current item
    pushes,             \* per worker: pushes of the current item to the failed queue
    calls,              \* per worker: get_historical_ohlc calls for the current item
    cancelledAt,        \* per worker: the await its first cancellation was delivered at
    oracle,             \* the responses of a deterministic exchange client
    log_formats,        \* whether the loguru logger formats an ERROR message
    enqueued            \* work items put on the work queue so far

\* discover_and_queue_work: the manager's configuration, the store it reads
\* and the call's own position and locals
VARIABLES
    backfill_whitelist, \* self.backfill_whitelist
    resolutions,        \* self.resolutions
    target_candles,     \* self.target_candles
    now_utc,            \* datetime.now(UTC), in milliseconds since the epoch
    instruments,        \* the instruments table: instrument -> market_type
    latest_db_ticks,    \* what fetch_latest_ohlc_timestamp answers per pair
    dpc,                \* the await discover_and_queue_work is suspended at
    dlocals,            \* its loop indices, market_type and pending work_item
    reads               \* the store accesses it has made, in order

dvars == <<backfill_whitelist, resolutions, target_candles, now_utc, instruments,
           latest_db_ticks, dpc, dlocals, reads>>

\* one call of transform_tv_data_to_ohlc_models
VARIABLES
    tv_payload,         \* its tv_data argument
    tv_args,            \* its exchange_name, instrument_name, resolution_str
    transformed         \* whether it has returned, and the list it returned

tvars == <<tv_payload, tv_args, transformed>>

vars == <<workQueue, failedQueue, store, pc, work_item, api_client,
          current_start_ts, ohlc_models, exc, result, clients, log, raised,
          pushes, calls, cancelledAt, oracle, log_formats, enqueued, dvars, tvars>>

----------------------------------------------------------------------------
(* Bounds of the model. *)

\* work items put on the work queue in one behaviour
MaxEnqueued == 2
\* records in one exchange payload
MaxBatch == 2
\* get_historical_ohlc calls counted per item (the counter saturates here)
MaxCalls == 3

Workers == {"w1", "w2"}

Min(a, b) == IF a < b THEN a ELSE b

----------------------------------------------------------------------------
(* Work items.  A dequeued value is a dict (isdict, with its keys in f) or *)
(* something else.                                                         *)

Dict(r) == [isdict |-> TRUE, f |-> r]

NotADict == [isdict |-> FALSE, f |-> [value |-> "NotADict"]]

NoItem == [isdict |-> FALSE, f |-> [value |-> "None"]]

GoodItem ==
    Dict([type |-> "GAP_FILL", exchange |-> "deribit", instrument |-> "BTC-PERP",
          market_type |-> "future", resolution |-> "1",
          start_ts |-> 1, end_ts |-> 3])

\* the item of test_run_worker_success: the five checked fields and a type
NoMarketTypeItem ==
    Dict([type |-> "BOOTSTRAP", exchange |-> "deribit", instrument |-> "BTC-PERP",
          resolution |-> "1", start_ts |-> 1, end_ts |-> 3])

MissingResolutionItem ==
    Dict([type |-> "BOOTSTRAP", exchange |-> "deribit", instrument |-> "BTC-PERP",
          market_type |-> "future", start_ts |-> 1, end_ts |-> 3])

\* the {"partial": "dict"} of test_run_worker_bad_item
PartialItem == Dict([partial |-> "dict"])

\* test_run_worker_client_errors: no client class for the exchange
UnknownExchangeItem ==
    Dict([type |-> "BOOTSTRAP", exchange |-> "unknown", instrument |-> "BTC-PERP",
          market_type |-> "future", resolution |-> "1",
          start_ts |-> 1, end_ts |-> 3])

\* a client class, but no entry in settings.exchanges
NoConfigItem ==
    Dict([type |-> "BOOTSTRAP", exchange |-> "binance", instrument |-> "BTC-PERP",
          market_type |-> "future", resolution |-> "1",
          start_ts |-> 1, end_ts |-> 3])

\* an empty range: the fetch loop body never runs
EmptyRangeItem ==
    Dict([type |-> "GAP_FILL", exchange |-> "deribit", instrument |-> "BTC-PERP",
          market_type |-> "future", resolution |-> "1",
          start_ts |-> 3, end_ts |-> 3])

ItemPool ==
    {GoodItem, NoMarketTypeItem, MissingResolutionItem, PartialItem, NotADict,
     UnknownExchangeItem, NoConfigItem, EmptyRangeItem}

\* a field list that forgets resolution
required_fields_without_resolution == {"exchange", "instrument", "start_ts", "end_ts"}

required_fields == {"exchange", "instrument", "resolution", "start_ts", "end_ts"}

\* isinstance(work_item, dict)
IsDict(item) == item.isdict

\* all(field in work_item for field in required_fields)
HasRequiredFields(item) == required_fields \subseteq DOMAIN item.f

\* client_map.get(exchange_name)
client_map == {"deribit", "binance"}

\* settings.exchanges.get(exchange_name)
settings_exchanges == {"deribit", "okx"}

\* not client_class
ClientClassMissing(item) == item.f.exchange \notin client_map

\* a worker that does not look the configuration up
ExchangeConfigNeverMissing(item) == FALSE

\* not exchange_config
ExchangeConfigMissing(item) == item.f.exchange \notin settings_exchanges

----------------------------------------------------------------------------
(* Exchange payloads.  A response is None, a dict (its keys in d) or some  *)
(* other truthy object.  A dict value is a list of raw elements or a       *)
(* scalar; a raw element is an int, a numeric string, a number with a      *)
(* fractional part (v + 0.5), junk (None, "not_a_float") or junk whose     *)
(* repr holds braces (the dict {"t": 1}, the string "{x}").                *)

RespNone == [kind |-> "none", d |-> <<>>]

RespNonDict == [kind |-> "nondict", d |-> <<>>]

RespDict(d) == [kind |-> "dict", d |-> d]

List(items) == [islist |-> TRUE, truthy |-> items # <<>>, items |-> items]

Scalar(truthy) == [islist |-> FALSE, truthy |-> truthy, items |-> <<>>]

RawInt(n) == [t |-> "int", v |-> n]

RawStr(n) == [t |-> "numstr", v |-> n]

RawFrac(n) == [t |-> "frac", v |-> n]

RawJunk == [t |-> "junk", v |-> 0]

RawBraces == [t |-> "braces", v |-> 0]

\* bool(response): None and {} are falsy
Truthy(response) ==
    \/ response.kind = "nondict"
    \/ response.kind = "dict" /\ DOMAIN response.d # {}

\* d.get(k, default)
DictGet(d, k, default) == IF k \in DOMAIN d THEN d[k] ELSE default

----------------------------------------------------------------------------
(* models.py: OHLCModel.  Pydantic validates in lax mode: an int field     *)
(* takes an int or a numeric string, a float field also a fractional       *)
(* number.  A float is modelled as [int, frac]: 2.0 is [int 2, frac 0],    *)
(* 2.5 is [int 2, frac 5].                                                 *)

PyFloat(n) == [int |-> n, frac |-> 0]

ValidInt(raw) == raw.t \in {"int", "numstr"}

ValidFloat(raw) == raw.t \in {"int", "numstr", "frac"}

ToFloat(raw) == [int |-> raw.v, frac |-> IF raw.t = "frac" THEN 5 ELSE 0]

\* a model whose open and close fields are filled from each other's keyword
OHLCModelSwappingOpenClose(exchange, instrument_name, resolution, tick, open, high, low, close, volume) ==
    [tick |-> tick.v,
     open |-> ToFloat(close), high |-> ToFloat(high), low |-> ToFloat(low),
     close |-> ToFloat(open), volume |-> ToFloat(volume),
     taker_buy_volume |-> PyFloat(0), taker_sell_volume |-> PyFloat(0),
     open_interest |-> "None",
     instrument_name |-> instrument_name, resolution |-> resolution]

\* the fields OHLCModel declares; extra="ignore" drops the exchange keyword
OHLCModel(exchange, instrument_name, resolution, tick, open, high, low, close, volume) ==
    [tick |-> tick.v,
     open |-> ToFloat(open), high |-> ToFloat(high), low |-> ToFloat(low),
     close |-> ToFloat(close), volume |-> ToFloat(volume),
     taker_buy_volume |-> PyFloat(0), taker_sell_volume |-> PyFloat(0),
     open_interest |-> "None",
     instrument_name |-> instrument_name, resolution |-> resolution]

\* whether OHLCModel(...) raises a ValidationError
OHLCModelValid(tick, open, high, low, close, volume) ==
    /\ ValidInt(tick)
    /\ \A x \in {open, high, low, close, volume} : ValidFloat(x)

----------------------------------------------------------------------------
(* ohlc/transformer.py *)

\* except (TypeError, IndexError, ValueError)
caught_exceptions == {"TypeError", "IndexError", "ValueError"}

\* what OHLCModel(...) raises on an invalid value: pydantic's ValidationError,
\* a subclass of ValueError
ValidationErrorBases == {"ValidationError", "ValueError", "Exception"}

\* a transformer that leaves the invalid candles out and keeps the others
transform_tv_data_skipping_invalid(tv_data, exchange_name, instrument_name, resolution_str) ==
    IF tv_data.kind # "dict" THEN <<>>
    ELSE
    LET ticks == DictGet(tv_data.d, "ticks", List(<<>>))
        opens == DictGet(tv_data.d, "open", List(<<>>))
        highs == DictGet(tv_data.d, "high", List(<<>>))
        lows == DictGet(tv_data.d, "low", List(<<>>))
        closes == DictGet(tv_data.d, "close", List(<<>>))
        volumes == DictGet(tv_data.d, "volume", List(<<>>))
        all == {ticks, opens, highs, lows, closes, volumes}
        ok(i) == OHLCModelValid(ticks.items[i], opens.items[i], highs.items[i],
                                lows.items[i], closes.items[i], volumes.items[i])
    IN  IF ~ \A lst \in all : lst.islist THEN <<>>
        ELSE IF ~ \A lst \in all : Len(lst.items) = Len(ticks.items) THEN <<>>
        ELSE LET kept == SelectSeq([i \in 1..Len(ticks.items) |-> i], ok)
             IN  [k \in 1..Len(kept) |->
                     OHLCModel(exchange_name, instrument_name, resolution_str,
                               ticks.items[kept[k]], opens.items[kept[k]],
                               highs.items[kept[k]], lows.items[kept[k]],
                               closes.items[kept[k]], volumes.items[kept[k]])]

transform_tv_data_to_ohlc_models(tv_data, exchange_name, instrument_name, resolution_str) ==
    IF tv_data.kind # "dict" THEN <<>>
    ELSE
    LET ticks == DictGet(tv_data.d, "ticks", List(<<>>))
        opens == DictGet(tv_data.d, "open", List(<<>>))
        highs == DictGet(tv_data.d, "high", List(<<>>))
        lows == DictGet(tv_data.d, "low", List(<<>>))
        closes == DictGet(tv_data.d, "close", List(<<>>))
        volumes == DictGet(tv_data.d, "volume", List(<<>>))
        all == {ticks, opens, highs, lows, closes, volumes}
    IN  IF ~ \A lst \in all : lst.islist THEN <<>>
        ELSE IF ~ \A lst \in all : Len(lst.items) = Len(ticks.items) THEN <<>>
        ELSE IF \E i \in 1..Len(ticks.items) :
                    ~ OHLCModelValid(ticks.items[i], opens.items[i], highs.items[i],
                                     lows.items[i], closes.items[i], volumes.items[i])
             THEN <<>>
        ELSE [i \in 1..Len(ticks.items) |->
                 OHLCModel(exchange_name, instrument_name, resolution_str,
                           ticks.items[i], opens.items[i], highs.items[i],
                           lows.items[i], closes.items[i], volumes.items[i])]

\* whether str(e) of the ValidationError raised for one candle holds a
\* brace: pydantic quotes the repr of every value it rejected
\* (input_value=...), and no field takes a value of that kind
ErrorTextHasBraces(tick, open, high, low, close, volume) ==
    \E x \in {tick, open, high, low, close, volume} : x.t = "braces"

\* whether the call lets an exception out: one raised by OHLCModel(...) that
\* the except clause does not catch, or one raised inside the except clause.
\* There log.error is given the keyword argument exc_info=True, so a loguru
\* logger that formats the record calls message.format(exc_info=True), which
\* raises KeyError (or IndexError, ValueError) when the text of the caught
\* exception holds a brace.  The loop stops at the first invalid candle.
transform_raises(tv_data) ==
    /\ tv_data.kind = "dict"
    /\ LET ticks == DictGet(tv_data.d, "ticks", List(<<>>))
           opens == DictGet(tv_data.d, "open", List(<<>>))
           highs == DictGet(tv_data.d, "high", List(<<>>))
           lows == DictGet(tv_data.d, "low", List(<<>>))
           closes == DictGet(tv_data.d, "close", List(<<>>))
           volumes == DictGet(tv_data.d, "volume", List(<<>>))
           all == {ticks, opens, highs, lows, closes, volumes}
           ok(i) == OHLCModelValid(ticks.items[i], opens.items[i], highs.items[i],
                                   lows.items[i], closes.items[i], volumes.items[i])
       IN  /\ \A lst \in all : lst.islist
           /\ \A lst \in all : Len(lst.items) = Len(ticks.items)
           /\ \E i \in 1..Len(ticks.items) :
                  /\ ~ ok(i)
                  /\ \A j \in 1..(i - 1) : ok(j)
                  /\ \/ ValidationErrorBases \cap caught_exceptions = {}
                     \/ /\ log_formats
                        /\ ErrorTextHasBraces(
                               ticks.items[i], opens.items[i], highs.items[i],
                               lows.items[i], closes.items[i], volumes.items[i])

----------------------------------------------------------------------------
(* The store.  bulk_upsert_ohlc is keyed by exchange, instrument,          *)
(* resolution and tick; a dumped OHLCModel carries no exchange.            *)

KeyOf(rec) ==
    <<IF "exchange" \in DOMAIN rec THEN rec.exchange ELSE "",
      rec.instrument_name, rec.resolution, rec.tick>>

\* an upsert that adds the new volume to the stored one on a key conflict
RECURSIVE bulk_upsert_ohlc_adding_volume(_, _)
bulk_upsert_ohlc_adding_volume(st, records) ==
    IF records = <<>> THEN st
    ELSE LET rec == Head(records)
             k == KeyOf(rec)
             new == IF k \in DOMAIN st
                    THEN [rec EXCEPT !.volume.int = @ + st[k].volume.int]
                    ELSE rec
             st1 == [x \in DOMAIN st \cup {k} |-> IF x = k THEN new ELSE st[x]]
         IN  bulk_upsert_ohlc_adding_volume(st1, Tail(records))

RECURSIVE bulk_upsert_ohlc(_, _)
bulk_upsert_ohlc(st, records) ==
    IF records = <<>> THEN st
    ELSE LET rec == Head(records)
             k == KeyOf(rec)
             st1 == [x \in DOMAIN st \cup {k} |-> IF x = k THEN rec ELSE st[x]]
         IN  bulk_upsert_ohlc(st1, Tail(records))

\* [m.model_dump() for m in ohlc_models]
records_for_db(models) == models

\* db._parse_resolution_to_timedelta, in milliseconds: a number of minutes
ResolutionMs(res_str) ==
    CASE res_str = "1" -> 60000
      [] res_str = "5" -> 300000

CandlesPerChunk == 1000

\* a chunk of 100 candles
chunk_advance_ms_of_100_candles(res_str) == 100 * ResolutionMs(res_str)

\* int(1000 * resolution_td.total_seconds() * 1000)
chunk_advance_ms(res_str) == CandlesPerChunk * ResolutionMs(res_str)

\* min(end_ts, current_start_ts + chunk_advance_ms)
current_end_ts(item, cursor) ==
    Min(item.f.end_ts, cursor + chunk_advance_ms(item.f.resolution))

----------------------------------------------------------------------------
(* ohlc/manager.py: pieces shared by the actions of run_worker.            *)

NewClient(w, item) == [owner |-> w, item |-> item, connected |-> FALSE, closes |-> 0]

\* the call of api_client.close(): counted when it is made
CallClose(cl, c) == [cl EXCEPT ![c].closes = @ + 1]

\* how run_worker ends once its finally block is through.  kind is what left
\* the outer try block: "cancelled" (a CancelledError, which the except
\* asyncio.CancelledError clause logged and did not re-raise) or "error" (any
\* other exception, which no clause of the outer try catches)
Leaves(kind) == IF kind = "cancelled" THEN "returned" ELSE "raised_error"

\* a finally block that does not close the client
FinallyWithoutClose(w, kind, cl) ==
    /\ clients' = cl
    /\ pc' = [pc EXCEPT ![w] = "done"]
    /\ result' = [result EXCEPT ![w] = Leaves(kind)]
    /\ UNCHANGED exc

\* the finally block up to its await: close is called on a client still held
Finally(w, kind, cl) ==
    IF api_client[w] # 0
    THEN /\ clients' = CallClose(cl, api_client[w])
         /\ pc' = [pc EXCEPT ![w] = "close_finally"]
         /\ exc' = [exc EXCEPT ![w] = kind]
         /\ UNCHANGED result
    ELSE /\ clients' = cl
         /\ pc' = [pc EXCEPT ![w] = "done"]
         /\ result' = [result EXCEPT ![w] = Leaves(kind)]
         /\ UNCHANGED exc

\* the except Exception handler up to its first await.  log.error is given
\* the keyword argument exc_info=True, and a loguru logger that formats the
\* record calls message.format(exc_info=True): the message holds the repr of
\* the work item, a dict, whose braces make str.format raise KeyError.  The
\* KeyError is raised inside the except block, so nothing is logged,
\* enqueue_failed_ohlc_work is not called and no clause of the outer try
\* catches it: only the finally block runs.  A logger that does not format
\* (no sink takes ERROR, or the module is disabled) returns, and
\* enqueue_failed_ohlc_work is called.
Handler(w, origin, lg, rs, cl) ==
    IF log_formats
    THEN /\ log' = lg
         /\ raised' = [rs EXCEPT ![w] = @ \cup {origin, "log"}]
         /\ Finally(w, "error", cl)
    ELSE /\ log' = [lg EXCEPT ![w] = @ \cup {"failed"}]
         /\ raised' = [rs EXCEPT ![w] = @ \cup {origin}]
         /\ pc' = [pc EXCEPT ![w] = "push_failed"]
         /\ clients' = cl
         /\ UNCHANGED <<exc, result>>

\* current_start_ts = start_ts
InitialCursor(item) == item.f.start_ts

\* the while test of the fetch loop with the cursor at `cursor`: the next
\* get_historical_ohlc call, or the end of the fetch (log.success) followed
\* by run_worker's call of api_client.close()
FetchLoop(w, cursor, cl) ==
    /\ current_start_ts' = [current_start_ts EXCEPT ![w] = cursor]
    /\ IF cursor < work_item[w].f.end_ts
       THEN /\ pc' = [pc EXCEPT ![w] = "fetch"]
            /\ calls' = [calls EXCEPT ![w] = Min(@ + 1, MaxCalls)]
            /\ clients' = cl
            /\ UNCHANGED log
       ELSE /\ pc' = [pc EXCEPT ![w] = "close"]
            /\ log' = [log EXCEPT ![w] = @ \cup {"complete"}]
            /\ clients' = CallClose(cl, api_client[w])
            /\ UNCHANGED calls

----------------------------------------------------------------------------
(* The work queue's producer: redis.enqueue_ohlc_work(work_item). *)

EnqueueWork(item) ==
    /\ enqueued < MaxEnqueued
    /\ enqueued' = enqueued + 1
    /\ workQueue' = Append(workQueue, item)
    /\ UNCHANGED <<failedQueue, store, pc, work_item, api_client, current_start_ts,
                   ohlc_models, exc, result, clients, log, raised, pushes, calls,
                   cancelledAt, oracle, log_formats>>

----------------------------------------------------------------------------
(* run_worker *)

\* a loop without the None test: None falls through to the isinstance test,
\* is logged as an invalid item and the next dequeue follows at once
DequeueNoneWithoutBackoff(w) ==
    /\ pc[w] = "dequeue"
    /\ workQueue = <<>>
    /\ work_item' = [work_item EXCEPT ![w] = NoItem]
    /\ log' = [log EXCEPT ![w] = {"invalid_type"}]
    /\ UNCHANGED <<workQueue, failedQueue, store, pc, api_client,
                   current_start_ts, ohlc_models, exc, result, clients, raised,
                   pushes, calls, cancelledAt, oracle, log_formats, enqueued>>

\* dequeue_ohlc_work() returns None, which is bound to work_item, and
\* asyncio.sleep(5) is awaited
DequeueNone(w) ==
    /\ pc[w] = "dequeue"
    /\ workQueue = <<>>
    /\ work_item' = [work_item EXCEPT ![w] = NoItem]
    /\ pc' = [pc EXCEPT ![w] = "backoff"]
    /\ UNCHANGED <<workQueue, failedQueue, store, api_client,
                   current_start_ts, ohlc_models, exc, result, clients, log, raised,
                   pushes, calls, cancelledAt, oracle, log_formats, enqueued>>

\* dequeue_ohlc_work() returns an item: the checks, then the client's
\* construction (which raises when ctor_raises) and the call of connect()
DequeueItem(w, ctor_raises) ==
    /\ pc[w] = "dequeue"
    /\ workQueue # <<>>
    /\ LET item == Head(workQueue)
           fresh == [log EXCEPT ![w] = {}]
           none == [raised EXCEPT ![w] = {}]
       IN  /\ workQueue' = Tail(workQueue)
           /\ work_item' = [work_item EXCEPT ![w] = item]
           /\ pushes' = [pushes EXCEPT ![w] = 0]
           /\ calls' = [calls EXCEPT ![w] = 0]
           /\ IF ~ IsDict(item)
              THEN /\ log' = [fresh EXCEPT ![w] = {"invalid_type"}]
                   /\ raised' = none
                   /\ UNCHANGED <<pc, api_client, clients, exc, result>>
              ELSE IF ~ HasRequiredFields(item)
              THEN /\ log' = [fresh EXCEPT ![w] = {"missing_fields"}]
                   /\ raised' = none
                   /\ UNCHANGED <<pc, api_client, clients, exc, result>>
              ELSE IF ClientClassMissing(item)
              THEN /\ log' = [fresh EXCEPT ![w] = {"no_client"}]
                   /\ raised' = none
                   /\ UNCHANGED <<pc, api_client, clients, exc, result>>
              ELSE IF ExchangeConfigMissing(item)
              THEN /\ log' = [fresh EXCEPT ![w] = {"no_config"}]
                   /\ raised' = none
                   /\ UNCHANGED <<pc, api_client, clients, exc, result>>
              ELSE IF ctor_raises
              THEN /\ Handler(w, "construct", fresh, none, clients)
                   /\ UNCHANGED api_client
              ELSE /\ clients' = Append(clients, NewClient(w, item))
                   /\ api_client' = [api_client EXCEPT ![w] = Len(clients) + 1]
                   /\ pc' = [pc EXCEPT ![w] = "connect"]
                   /\ log' = fresh
                   /\ raised' = none
                   /\ UNCHANGED <<exc, result>>
    /\ UNCHANGED <<failedQueue, store, current_start_ts, ohlc_models, cancelledAt,
                   oracle, log_formats, enqueued>>

\* dequeue_ohlc_work() raises: not a CancelledError, so only finally runs
DequeueRaises(w) ==
    /\ pc[w] = "dequeue"
    /\ raised' = [raised EXCEPT ![w] = @ \cup {"dequeue"}]
    /\ Finally(w, "error", clients)
    /\ UNCHANGED <<workQueue, failedQueue, store, work_item, api_client,
                   current_start_ts, ohlc_models, log, pushes, calls, cancelledAt,
                   oracle, log_formats, enqueued>>

\* asyncio.sleep(5) returns: continue
BackoffReturns(w) ==
    /\ pc[w] = "backoff"
    /\ pc' = [pc EXCEPT ![w] = "dequeue"]
    /\ UNCHANGED <<workQueue, failedQueue, store, work_item, api_client,
                   current_start_ts, ohlc_models, exc, result, clients, log, raised,
                   pushes, calls, cancelledAt, oracle, log_formats, enqueued>>

\* connect() returns: _perform_paginated_ohlc_fetch starts, reads the item's
\* fields (work_item["market_type"] raises KeyError) and enters its loop
ConnectReturns(w) ==
    /\ pc[w] = "connect"
    /\ LET cl == [clients EXCEPT ![api_client[w]].connected = TRUE]
       IN  IF "market_type" \notin DOMAIN work_item[w].f
           THEN /\ Handler(w, "keyerror", log, raised, cl)
                /\ UNCHANGED <<current_start_ts, calls>>
           ELSE /\ FetchLoop(w, InitialCursor(work_item[w]), cl)
                /\ UNCHANGED <<raised, exc, result>>
    /\ UNCHANGED <<workQueue, failedQueue, store, work_item, api_client, ohlc_models,
                   pushes, cancelledAt, oracle, log_formats, enqueued>>

ConnectRaises(w) ==
    /\ pc[w] = "connect"
    /\ Handler(w, "connect", log, raised, clients)
    /\ UNCHANGED <<workQueue, failedQueue, store, work_item, api_client,
                   current_start_ts, ohlc_models, pushes, calls, cancelledAt, oracle,
                   log_formats, enqueued>>

----------------------------------------------------------------------------
(* _perform_paginated_ohlc_fetch *)

\* get_historical_ohlc() returns `response`
GetHistoricalReturns(w, response) ==
    /\ pc[w] = "fetch"
    /\ LET item == work_item[w]
           chunk_end == current_end_ts(item, current_start_ts[w])
           models == transform_tv_data_to_ohlc_models(
                         response, item.f.exchange, item.f.instrument,
                         item.f.resolution)
       IN  IF ~ Truthy(response)
           THEN \* no data: advance past the chunk, asyncio.sleep(0.2)
                /\ current_start_ts' = [current_start_ts EXCEPT ![w] = chunk_end + 1]
                /\ pc' = [pc EXCEPT ![w] = "pacing"]
                /\ UNCHANGED <<ohlc_models, log, raised, exc, result, clients>>
           ELSE IF response.kind # "dict"
           THEN \* response.get raises AttributeError
                /\ Handler(w, "fetch", log, raised, clients)
                /\ UNCHANGED <<ohlc_models, current_start_ts>>
           ELSE IF ~ DictGet(response.d, "ticks", Scalar(FALSE)).truthy
           THEN /\ current_start_ts' = [current_start_ts EXCEPT ![w] = chunk_end + 1]
                /\ pc' = [pc EXCEPT ![w] = "pacing"]
                /\ UNCHANGED <<ohlc_models, log, raised, exc, result, clients>>
           ELSE IF transform_raises(response)
           THEN \* transform_tv_data_to_ohlc_models lets an exception out
                /\ Handler(w, "fetch", log, raised, clients)
                /\ UNCHANGED <<ohlc_models, current_start_ts>>
           ELSE IF models = <<>>
           THEN /\ current_start_ts' = [current_start_ts EXCEPT ![w] = chunk_end + 1]
                /\ pc' = [pc EXCEPT ![w] = "pacing"]
                /\ UNCHANGED <<ohlc_models, log, raised, exc, result, clients>>
           ELSE \* bulk_upsert_ohlc(records_for_db) is awaited
                /\ ohlc_models' = [ohlc_models EXCEPT ![w] = models]
                /\ pc' = [pc EXCEPT ![w] = "upsert"]
                /\ UNCHANGED <<current_start_ts, log, raised, exc, result, clients>>
    /\ UNCHANGED <<workQueue, failedQueue, store, work_item, api_client, pushes,
                   calls, cancelledAt, oracle, log_formats, enqueued>>

GetHistoricalRaises(w) ==
    /\ pc[w] = "fetch"
    /\ Handler(w, "fetch", log, raised, clients)
    /\ UNCHANGED <<workQueue, failedQueue, store, work_item, api_client,
                   current_start_ts, ohlc_models, pushes, calls, cancelledAt, oracle,
                   log_formats, enqueued>>

\* a cursor taken from the first record of the batch
NextCursorOfFirstRecord(models) == models[1].tick + 1

\* last_tick_ms + 1
NextCursor(models) == models[Len(models)].tick + 1

\* bulk_upsert_ohlc() returns: the cursor moves, asyncio.sleep(0.2)
BulkUpsertReturns(w) ==
    /\ pc[w] = "upsert"
    /\ store' = bulk_upsert_ohlc(store, records_for_db(ohlc_models[w]))
    /\ current_start_ts' = [current_start_ts EXCEPT ![w] = NextCursor(ohlc_models[w])]
    /\ ohlc_models' = [ohlc_models EXCEPT ![w] = <<>>]
    /\ pc' = [pc EXCEPT ![w] = "pacing"]
    /\ UNCHANGED <<workQueue, failedQueue, work_item, api_client, exc, result,
                   clients, log, raised, pushes, calls, cancelledAt, oracle,
                   log_formats, enqueued>>

BulkUpsertRaises(w) ==
    /\ pc[w] = "upsert"
    /\ Handler(w, "upsert", log, raised, clients)
    /\ ohlc_models' = [ohlc_models EXCEPT ![w] = <<>>]
    /\ UNCHANGED <<workQueue, failedQueue, store, work_item, api_client,
                   current_start_ts, pushes, calls, cancelledAt, oracle, log_formats,
                   enqueued>>

\* asyncio.sleep(0.2) returns: back to the while test
PacingReturns(w) ==
    /\ pc[w] = "pacing"
    /\ FetchLoop(w, current_start_ts[w], clients)
    /\ UNCHANGED <<workQueue, failedQueue, store, work_item, api_client, ohlc_models,
                   exc, result, raised, pushes, cancelledAt, oracle,
                   log_formats, enqueued>>

----------------------------------------------------------------------------
(* run_worker, after the fetch *)

\* close() returns on the success path: api_client = None, next iteration
CloseReturns(w) ==
    /\ pc[w] = "close"
    /\ api_client' = [api_client EXCEPT ![w] = 0]
    /\ pc' = [pc EXCEPT ![w] = "dequeue"]
    /\ UNCHANGED <<workQueue, failedQueue, store, work_item, current_start_ts,
                   ohlc_models, exc, result, clients, log, raised, pushes, calls,
                   cancelledAt, oracle, log_formats, enqueued>>

\* close() raises on the success path: caught by except Exception
CloseRaises(w) ==
    /\ pc[w] = "close"
    /\ Handler(w, "close", log, raised, clients)
    /\ UNCHANGED <<workQueue, failedQueue, store, work_item, api_client,
                   current_start_ts, ohlc_models, pushes, calls, cancelledAt, oracle,
                   log_formats, enqueued>>

\* a handler that requeues the item and leaves the client as it is
PushFailedReturnsWithoutClose(w) ==
    /\ pc[w] = "push_failed"
    /\ failedQueue' = Append(failedQueue, work_item[w])
    /\ pushes' = [pushes EXCEPT ![w] = @ + 1]
    /\ pc' = [pc EXCEPT ![w] = "dequeue"]
    /\ UNCHANGED <<workQueue, store, work_item, api_client, current_start_ts,
                   ohlc_models, exc, result, clients, log, raised, calls, cancelledAt,
                   oracle, log_formats, enqueued>>

\* a handler that puts the failed item back on the work queue
PushFailedReturnsToWorkQueue(w) ==
    /\ pc[w] = "push_failed"
    /\ workQueue' = Append(workQueue, work_item[w])
    /\ pushes' = [pushes EXCEPT ![w] = @ + 1]
    /\ IF api_client[w] # 0
       THEN /\ clients' = CallClose(clients, api_client[w])
            /\ pc' = [pc EXCEPT ![w] = "close_failed"]
       ELSE /\ pc' = [pc EXCEPT ![w] = "dequeue"]
            /\ UNCHANGED clients
    /\ UNCHANGED <<failedQueue, store, work_item, api_client, current_start_ts,
                   ohlc_models, exc, result, log, raised, calls, cancelledAt, oracle,
                   log_formats,
                   enqueued>>

\* enqueue_failed_ohlc_work() returns: close the client if one is held
PushFailedReturns(w) ==
    /\ pc[w] = "push_failed"
    /\ failedQueue' = Append(failedQueue, work_item[w])
    /\ pushes' = [pushes EXCEPT ![w] = @ + 1]
    /\ IF api_client[w] # 0
       THEN /\ clients' = CallClose(clients, api_client[w])
            /\ pc' = [pc EXCEPT ![w] = "close_failed"]
       ELSE /\ pc' = [pc EXCEPT ![w] = "dequeue"]
            /\ UNCHANGED clients
    /\ UNCHANGED <<workQueue, store, work_item, api_client, current_start_ts,
                   ohlc_models, exc, result, log, raised, calls, cancelledAt, oracle,
                   log_formats,
                   enqueued>>

\* enqueue_failed_ohlc_work() raises inside the handler: the outer try has no
\* clause for it, so only finally runs
PushFailedRaises(w) ==
    /\ pc[w] = "push_failed"
    /\ raised' = [raised EXCEPT ![w] = @ \cup {"push"}]
    /\ Finally(w, "error", clients)
    /\ UNCHANGED <<workQueue, failedQueue, store, work_item, api_client,
                   current_start_ts, ohlc_models, log, pushes, calls, cancelledAt,
                   oracle, log_formats, enqueued>>

\* the handler's close() returns: api_client = None, next iteration
CloseFailedReturns(w) ==
    /\ pc[w] = "close_failed"
    /\ api_client' = [api_client EXCEPT ![w] = 0]
    /\ pc' = [pc EXCEPT ![w] = "dequeue"]
    /\ UNCHANGED <<workQueue, failedQueue, store, work_item, current_start_ts,
                   ohlc_models, exc, result, clients, log, raised, pushes, calls,
                   cancelledAt, oracle, log_formats, enqueued>>

\* the handler's close() raises: only finally runs
CloseFailedRaises(w) ==
    /\ pc[w] = "close_failed"
    /\ raised' = [raised EXCEPT ![w] = @ \cup {"close_failed"}]
    /\ Finally(w, "error", clients)
    /\ UNCHANGED <<workQueue, failedQueue, store, work_item, api_client,
                   current_start_ts, ohlc_models, log, pushes, calls, cancelledAt,
                   oracle, log_formats, enqueued>>

\* the finally block's close() returns: run_worker returns, or the exception
\* that was propagating leaves it
CloseFinallyReturns(w) ==
    /\ pc[w] = "close_finally"
    /\ pc' = [pc EXCEPT ![w] = "done"]
    /\ result' = [result EXCEPT ![w] = Leaves(exc[w])]
    /\ UNCHANGED <<workQueue, failedQueue, store, work_item, api_client,
                   current_start_ts, ohlc_models, exc, clients, log, raised, pushes,
                   calls, cancelledAt, oracle, log_formats, enqueued>>

\* the finally block's close() raises: that exception leaves run_worker
CloseFinallyRaises(w) ==
    /\ pc[w] = "close_finally"
    /\ pc' = [pc EXCEPT ![w] = "done"]
    /\ result' = [result EXCEPT ![w] = "raised_error"]
    /\ raised' = [raised EXCEPT ![w] = @ \cup {"close_finally"}]
    /\ UNCHANGED <<workQueue, failedQueue, store, work_item, api_client,
                   current_start_ts, ohlc_models, exc, clients, log, pushes,
                   calls, cancelledAt, oracle, log_formats, enqueued>>

SuspensionPoints ==
    {"dequeue", "backoff", "connect", "fetch", "upsert", "pacing", "close",
     "push_failed", "close_failed", "close_finally"}

\* task.cancel(): CancelledError is raised at the await the worker is
\* suspended at.  It is no Exception, so the inner handler does not see it.
\* Raised anywhere inside the outer try block (the inner handler's awaits
\* included) it is caught by except asyncio.CancelledError, which logs and
\* does not re-raise; raised inside the finally block it leaves run_worker.
\* A task that swallowed one cancellation can be cancelled again: the only
\* await left to it is the finally block's close().
Cancel(w) ==
    /\ pc[w] \in SuspensionPoints
    /\ cancelledAt' = [cancelledAt EXCEPT ![w] = IF @ = "none" THEN pc[w] ELSE @]
    /\ IF pc[w] = "close_finally"
       THEN /\ pc' = [pc EXCEPT ![w] = "done"]
            /\ result' = [result EXCEPT ![w] = "raised_cancelled"]
            /\ UNCHANGED <<exc, clients, log>>
       ELSE /\ log' = [log EXCEPT ![w] = @ \cup {"cancelled"}]
            /\ Finally(w, "cancelled", clients)
    /\ UNCHANGED <<workQueue, failedQueue, store, work_item, api_client,
                   current_start_ts, ohlc_models, raised, pushes, calls, oracle,
                   log_formats,
                   enqueued>>

----------------------------------------------------------------------------
(* What the exchange client may answer. *)

\* a well-formed payload: candle i has tick ticks[i] and prices around price
Candles(ticks, price) ==
    LET n == Len(ticks)
    IN  RespDict([ticks  |-> List([i \in 1..n |-> RawInt(ticks[i])]),
                  open   |-> List([i \in 1..n |-> RawInt(price)]),
                  high   |-> List([i \in 1..n |-> RawInt(price + 2)]),
                  low    |-> List([i \in 1..n |-> RawInt(price - 1)]),
                  close  |-> List([i \in 1..n |-> RawInt(price + 1)]),
                  volume |-> List([i \in 1..n |-> RawInt(10 * i)])])

\* {}
RespEmptyDict == RespDict([k \in {} |-> List(<<>>)])

\* {"bad": "data"}: no tick series
RespNoTicks == RespDict([bad |-> Scalar(TRUE)])

\* {"ticks": []}: an empty tick series
RespEmptyTicks == RespDict([ticks |-> List(<<>>)])

\* {"ticks": [t]}: a tick series and nothing else
RespTicksOnly(t) == RespDict([ticks |-> List(<<RawInt(t)>>)])

\* sequences of 1..n elements of S
SeqsUpTo(S, n) == UNION {[1..k -> S] : k \in 1..n}

\* the six parallel arrays of a payload
Six == {"ticks", "open", "high", "low", "close", "volume"}

\* the payload {ticks: [1000, 2000], open: [1, 2], high: [3, 4], low: [0, 1],
\* close: [2, 3], volume: [10, 20]}, cut or continued to n candles
ExamplePayload(n) ==
    [ticks  |-> List([i \in 1..n |-> RawInt(1000 * i)]),
     open   |-> List([i \in 1..n |-> RawInt(i)]),
     high   |-> List([i \in 1..n |-> RawInt(i + 2)]),
     low    |-> List([i \in 1..n |-> RawInt(i - 1)]),
     close  |-> List([i \in 1..n |-> RawInt(i + 1)]),
     volume |-> List([i \in 1..n |-> RawInt(10 * i)])]

\* ways to alter one array of a payload: drop the key, make it a non-list,
\* drop its last element, or replace the element at pos by junk, by junk
\* with braces, by the same number as a string, or by the number plus one half
Alterations(d) ==
    {[col |-> c, kind |-> k, pos |-> 1] :
        c \in Six, k \in {"missing", "scalar", "short"}}
    \cup {[col |-> c, kind |-> k, pos |-> i] :
             c \in Six, k \in {"junk", "braces", "numstr", "frac"},
             i \in 1..Len(d.ticks.items)}

Alter(d, m) ==
    IF m.kind = "missing" THEN [k \in DOMAIN d \ {m.col} |-> d[k]]
    ELSE [d EXCEPT ![m.col] =
            CASE m.kind = "scalar" -> Scalar(TRUE)
              [] m.kind = "short" -> List(SubSeq(@.items, 1, Len(@.items) - 1))
              [] m.kind = "junk" -> List([@.items EXCEPT ![m.pos] = RawJunk])
              [] m.kind = "braces" -> List([@.items EXCEPT ![m.pos] = RawBraces])
              [] m.kind = "numstr" -> List([@.items EXCEPT ![m.pos] = RawStr(@.v)])
              [] m.kind = "frac" -> List([@.items EXCEPT ![m.pos] = RawFrac(@.v)])]

\* the payloads a worker of the pool may get for an item: one of each kind
\* the fetcher tells apart, the candles being the last one of the range, a
\* stale one from before it, or one whose close is junk with braces
WorkerResponses(item) ==
    {RespNone, RespEmptyDict, RespNoTicks, RespNonDict, RespTicksOnly(item.f.start_ts),
     Candles(<<item.f.end_ts - 1>>, 1), Candles(<<item.f.start_ts - 1>>, 1),
     RespDict(Alter(Candles(<<item.f.end_ts - 1>>, 1).d,
                    [col |-> "close", kind |-> "braces", pos |-> 1]))}

----------------------------------------------------------------------------
(* The worker pool on one work queue. *)

EmptyStore == [k \in {} |-> 0]

\* no discover_and_queue_work call is in progress
NoDiscovery ==
    /\ backfill_whitelist = <<>>
    /\ resolutions = <<>>
    /\ target_candles = 0
    /\ now_utc = 0
    /\ instruments = <<>>
    /\ latest_db_ticks = <<>>
    /\ dpc = "idle"
    /\ dlocals = <<>>
    /\ reads = <<>>

\* no transformer call under observation
NoTransform ==
    /\ tv_payload = RespNone
    /\ tv_args = [exchange_name |-> "", instrument_name |-> "", resolution_str |-> ""]
    /\ transformed = [returned |-> FALSE, raised |-> FALSE, records |-> <<>>]

Init ==
    /\ NoDiscovery
    /\ NoTransform
    /\ workQueue = <<>>
    /\ failedQueue = <<>>
    /\ store = EmptyStore
    /\ pc = [w \in Workers |-> "dequeue"]
    /\ work_item = [w \in Workers |-> NoItem]
    /\ api_client = [w \in Workers |-> 0]
    /\ current_start_ts = [w \in Workers |-> 0]
    /\ ohlc_models = [w \in Workers |-> <<>>]
    /\ exc = [w \in Workers |-> "none"]
    /\ result = [w \in Workers |-> "running"]
    /\ clients = <<>>
    /\ log = [w \in Workers |-> {}]
    /\ raised = [w \in Workers |-> {}]
    /\ pushes = [w \in Workers |-> 0]
    /\ calls = [w \in Workers |-> 0]
    /\ cancelledAt = [w \in Workers |-> "none"]
    /\ oracle = <<>>
    /\ enqueued = 0
    /\ log_formats \in BOOLEAN

WorkerStep(w) ==
    \/ DequeueNone(w)
    \/ \E ctor_raises \in BOOLEAN : DequeueItem(w, ctor_raises)
    \/ DequeueRaises(w)
    \/ BackoffReturns(w)
    \/ ConnectReturns(w)
    \/ ConnectRaises(w)
    \/ /\ pc[w] = "fetch"
       /\ \E response \in WorkerResponses(work_item[w]) :
              GetHistoricalReturns(w, response)
    \/ GetHistoricalRaises(w)
    \/ BulkUpsertReturns(w)
    \/ BulkUpsertRaises(w)
    \/ PacingReturns(w)
    \/ CloseReturns(w)
    \/ CloseRaises(w)
    \/ PushFailedReturns(w)
    \/ PushFailedRaises(w)
    \/ CloseFailedReturns(w)
    \/ CloseFailedRaises(w)
    \/ CloseFinallyReturns(w)
    \/ CloseFinallyRaises(w)
    \/ Cancel(w)

Next ==
    /\ \/ \E item \in ItemPool : EnqueueWork(item)
       \/ \E w \in Workers : WorkerStep(w)
    /\ UNCHANGED <<dvars, tvars>>

Spec == Init /\ [][Next]_vars

----------------------------------------------------------------------------
(* One call of _perform_paginated_ohlc_fetch(work_item, api_client), as    *)
(* run_worker makes it once connect() has returned, with an exchange       *)
(* client that may answer anything.                                        *)

\* a range of two chunks of resolution "1"
TwoChunkItem ==
    Dict([type |-> "BOOTSTRAP", exchange |-> "deribit", instrument |-> "BTC-PERP",
          market_type |-> "future", resolution |-> "1",
          start_ts |-> 1, end_ts |-> 60000004])

\* a range inside one chunk of resolution "5"
FiveMinuteItem ==
    Dict([type |-> "GAP_FILL", exchange |-> "deribit", instrument |-> "BTC-PERP",
          market_type |-> "future", resolution |-> "5",
          start_ts |-> 1, end_ts |-> 3])

FetchItems == {GoodItem, TwoChunkItem, FiveMinuteItem}

\* the ticks an answer may carry: for a range of one chunk the tick before
\* it, its first and last ticks, its end and the tick after; for a longer
\* range its start, the end of its first chunk and its last tick
FetchTicks(item) ==
    IF item.f.end_ts - item.f.start_ts <= chunk_advance_ms(item.f.resolution)
    THEN {item.f.start_ts - 1, item.f.start_ts, item.f.end_ts - 1,
          item.f.end_ts, item.f.end_ts + 1}
    ELSE {item.f.start_ts,
          item.f.start_ts + chunk_advance_ms(item.f.resolution),
          item.f.end_ts - 1}

FetchResponses(item) ==
    {RespNone, RespEmptyDict, RespNoTicks, RespNonDict, RespTicksOnly(item.f.start_ts)}
    \cup {Candles(ticks, 1) : ticks \in SeqsUpTo(FetchTicks(item), MaxBatch)}

Fetcher == "w1"

InitFetch ==
    /\ NoDiscovery
    /\ NoTransform
    /\ workQueue = <<>>
    /\ failedQueue = <<>>
    /\ store = EmptyStore
    /\ \E item \in FetchItems :
           /\ work_item = [w \in Workers |-> IF w = Fetcher THEN item ELSE NoItem]
           /\ clients = <<NewClient(Fetcher, item)>>
    /\ pc = [w \in Workers |-> IF w = Fetcher THEN "connect" ELSE "done"]
    /\ api_client = [w \in Workers |-> IF w = Fetcher THEN 1 ELSE 0]
    /\ current_start_ts = [w \in Workers |-> 0]
    /\ ohlc_models = [w \in Workers |-> <<>>]
    /\ exc = [w \in Workers |-> "none"]
    /\ result = [w \in Workers |-> "running"]
    /\ log = [w \in Workers |-> {}]
    /\ raised = [w \in Workers |-> {}]
    /\ pushes = [w \in Workers |-> 0]
    /\ calls = [w \in Workers |-> 0]
    /\ cancelledAt = [w \in Workers |-> "none"]
    /\ oracle = <<>>
    /\ enqueued = 0
    /\ log_formats \in BOOLEAN

NextFetch ==
    /\ \/ ConnectReturns(Fetcher)
       \/ /\ pc[Fetcher] = "fetch"
          /\ \E response \in FetchResponses(work_item[Fetcher]) :
                 GetHistoricalReturns(Fetcher, response)
       \/ BulkUpsertReturns(Fetcher)
       \/ PacingReturns(Fetcher)
    /\ UNCHANGED <<dvars, tvars>>

SpecFetch == InitFetch /\ [][NextFetch]_vars

\* the event loop resumes a task whose await has completed
SpecFetchFair == SpecFetch /\ WF_vars(NextFetch)

\* the fetch is running: it has neither returned nor raised
InFetch(w) == pc[w] \in {"connect", "fetch", "upsert", "pacing"}

\* C1: the paginated fetch of an item with start_ts < end_ts ends, whatever
\* the exchange client answers.
C1_FetchTerminates == <>(~ InFetch(Fetcher))

----------------------------------------------------------------------------
(* The same work item enqueued twice, the exchange client answering each   *)
(* request by a fixed function of it (oracle, indexed by the start of the  *)
(* requested window; the rest of the request follows from the item).       *)

IdemItem == GoodItem

Prices == {1, 2}

\* the windows of IdemItem start at a tick of its range
IdemCursors == IdemItem.f.start_ts..(IdemItem.f.end_ts - 1)

\* two candles of the range with one defect: the second close is junk, the
\* second low is junk with braces, the second tick has a fractional part,
\* open is no list, high is one element short, volume is missing
IdemDefects ==
    LET d == Candles(<<IdemItem.f.start_ts, IdemItem.f.start_ts + 1>>, 1).d
    IN  {RespDict(Alter(d, m)) :
            m \in {[col |-> "close", kind |-> "junk", pos |-> 2],
                   [col |-> "low", kind |-> "braces", pos |-> 2],
                   [col |-> "ticks", kind |-> "frac", pos |-> 2],
                   [col |-> "open", kind |-> "scalar", pos |-> 1],
                   [col |-> "high", kind |-> "short", pos |-> 1],
                   [col |-> "volume", kind |-> "missing", pos |-> 1]}}

IdemResponses ==
    {RespNone, RespTicksOnly(IdemItem.f.start_ts)}
    \cup {Candles(ticks, price) : ticks \in SeqsUpTo(IdemCursors, MaxBatch),
                                  price \in Prices}
    \cup IdemDefects
    \cup {RespNonDict}

InitIdem ==
    /\ NoDiscovery
    /\ NoTransform
    /\ workQueue = <<IdemItem, IdemItem>>
    /\ failedQueue = <<>>
    /\ store = EmptyStore
    /\ pc = [w \in Workers |-> "dequeue"]
    /\ work_item = [w \in Workers |-> NoItem]
    /\ api_client = [w \in Workers |-> 0]
    /\ current_start_ts = [w \in Workers |-> 0]
    /\ ohlc_models = [w \in Workers |-> <<>>]
    /\ exc = [w \in Workers |-> "none"]
    /\ result = [w \in Workers |-> "running"]
    /\ clients = <<>>
    /\ log = [w \in Workers |-> {}]
    /\ raised = [w \in Workers |-> {}]
    /\ pushes = [w \in Workers |-> 0]
    /\ calls = [w \in Workers |-> 0]
    /\ cancelledAt = [w \in Workers |-> "none"]
    /\ oracle \in [IdemCursors -> IdemResponses]
    /\ enqueued = 2
    /\ log_formats \in BOOLEAN

IdemStep(w) ==
    \/ DequeueNone(w)
    \/ DequeueItem(w, FALSE)
    \/ BackoffReturns(w)
    \/ ConnectReturns(w)
    \/ /\ pc[w] = "fetch"
       /\ current_start_ts[w] \in DOMAIN oracle
       /\ GetHistoricalReturns(w, oracle[current_start_ts[w]])
    \/ BulkUpsertReturns(w)
    \/ PacingReturns(w)
    \/ CloseReturns(w)
    \/ PushFailedReturns(w)
    \/ CloseFailedReturns(w)

NextIdem == (\E w \in Workers : IdemStep(w)) /\ UNCHANGED <<dvars, tvars>>

SpecIdem == InitIdem /\ [][NextIdem]_vars

\* the store the fetch loop of `item` leaves when it runs alone on store st
\* from `cursor`, for at most `fuel` chunks, or until an answer makes the
\* fetch raise (a truthy answer that is no dict, manager.py:162, or one the
\* transformer raises on, manager.py:169)
RECURSIVE FetchAlone(_, _, _, _)
FetchAlone(item, cursor, st, fuel) ==
    IF cursor >= item.f.end_ts \/ fuel = 0 \/ cursor \notin DOMAIN oracle THEN st
    ELSE LET response == oracle[cursor]
             chunk_end == current_end_ts(item, cursor)
             models == transform_tv_data_to_ohlc_models(
                           response, item.f.exchange, item.f.instrument,
                           item.f.resolution)
         IN  IF ~ Truthy(response)
             THEN FetchAlone(item, chunk_end + 1, st, fuel - 1)
             ELSE IF response.kind # "dict"
             THEN \* response.get raises AttributeError: the fetch ends here
                  st
             ELSE IF ~ DictGet(response.d, "ticks", Scalar(FALSE)).truthy
             THEN FetchAlone(item, chunk_end + 1, st, fuel - 1)
             ELSE IF transform_raises(response)
             THEN st
             ELSE IF models = <<>>
             THEN FetchAlone(item, chunk_end + 1, st, fuel - 1)
             ELSE FetchAlone(item, NextCursor(models),
                             bulk_upsert_ohlc(st, records_for_db(models)), fuel - 1)

\* both copies of the item have been processed to completion
ProcessedTwice ==
    /\ workQueue = <<>>
    /\ Len(clients) = 2
    /\ \A w \in Workers : pc[w] \in {"dequeue", "backoff"}

\* C10: with a deterministic exchange client, once the same item has been
\* processed twice (by one worker or by two, interleaved in any way) the
\* store is what one processing alone leaves; and handing a batch to the
\* upsert twice leaves what handing it once leaves.
C10_ReprocessingIsIdempotent ==
    /\ ProcessedTwice =>
           store = FetchAlone(IdemItem, IdemItem.f.start_ts, EmptyStore,
                              Cardinality(IdemCursors))
    /\ \A w \in Workers :
           pc[w] = "upsert" =>
               LET batch == records_for_db(ohlc_models[w])
               IN  bulk_upsert_ohlc(bulk_upsert_ohlc(store, batch), batch)
                       = bulk_upsert_ohlc(store, batch)

\* two workers have each processed the item in two chunks, the second chunk
\* overwriting the first one's candle for tick 1 at another price
C10_Witness ==
    /\ ProcessedTwice
    /\ clients[1].owner # clients[2].owner
    /\ \A w \in Workers : calls[w] = 2
    /\ Cardinality(DOMAIN store) = 2
    /\ \A k \in DOMAIN store : store[k].open = PyFloat(2)
    /\ oracle[1] = Candles(<<1>>, 1)
    /\ oracle[2] = Candles(<<1, 2>>, 2) \/ oracle[2] = Candles(<<2, 1>>, 2)

----------------------------------------------------------------------------
(* One call of transform_tv_data_to_ohlc_models on an arbitrary payload:   *)
(* the example payload of up to MaxBatch candles, altered in at most two   *)
(* of its arrays, or no dict at all.                                       *)

AlteredPayloads ==
    UNION {LET d == ExamplePayload(n)
           IN  {d} \cup {Alter(d, m) : m \in Alterations(d)}
                   \cup {Alter(Alter(d, p[1]), p[2]) :
                            p \in {q \in Alterations(d) \X Alterations(d) :
                                      q[1].col # q[2].col}}
           : n \in 0..MaxBatch}

TransformInputs == {RespNone, RespNonDict} \cup {RespDict(d) : d \in AlteredPayloads}

TransformArgs ==
    [exchange_name : {GoodItem.f.exchange}, instrument_name : {GoodItem.f.instrument},
     resolution_str : {"1", "5"}]

InitTransform ==
    /\ NoDiscovery
    /\ workQueue = <<>>
    /\ failedQueue = <<>>
    /\ store = EmptyStore
    /\ pc = [w \in Workers |-> "dequeue"]
    /\ work_item = [w \in Workers |-> NoItem]
    /\ api_client = [w \in Workers |-> 0]
    /\ current_start_ts = [w \in Workers |-> 0]
    /\ ohlc_models = [w \in Workers |-> <<>>]
    /\ exc = [w \in Workers |-> "none"]
    /\ result = [w \in Workers |-> "running"]
    /\ clients = <<>>
    /\ log = [w \in Workers |-> {}]
    /\ raised = [w \in Workers |-> {}]
    /\ pushes = [w \in Workers |-> 0]
    /\ calls = [w \in Workers |-> 0]
    /\ cancelledAt = [w \in Workers |-> "none"]
    /\ oracle = <<>>
    /\ enqueued = 0
    /\ log_formats \in BOOLEAN
    /\ tv_payload \in TransformInputs
    /\ tv_args \in TransformArgs
    /\ transformed = [returned |-> FALSE, raised |-> FALSE, records |-> <<>>]

\* the call runs to its return statement, or to an exception it lets out
TransformCall ==
    /\ ~ transformed.returned
    /\ ~ transformed.raised
    /\ transformed' =
           IF transform_raises(tv_payload)
           THEN [returned |-> FALSE, raised |-> TRUE, records |-> <<>>]
           ELSE [returned |-> TRUE, raised |-> FALSE,
                 records |-> transform_tv_data_to_ohlc_models(
                                 tv_payload, tv_args.exchange_name,
                                 tv_args.instrument_name, tv_args.resolution_str)]
    /\ UNCHANGED <<workQueue, failedQueue, store, pc, work_item, api_client,
                   current_start_ts, ohlc_models, exc, result, clients, log, raised,
                   pushes, calls, cancelledAt, oracle,
                   log_formats, enqueued, dvars, tv_payload,
                   tv_args>>

NextTransform == TransformCall

SpecTransform == InitTransform /\ [][NextTransform]_vars

----------------------------------------------------------------------------
(* Properties of the worker pool. *)

\* worker w is done with the item it holds: it is back at its dequeue, which
\* has not returned yet (a None it returns replaces the item), or has exited
Handled(w) == work_item[w] # NoItem /\ pc[w] \in {"dequeue", "done"}

\* worker w has left its while loop
LeftLoop(w) == pc[w] \in {"close_finally", "done"}

\* the clients worker w constructed
ClientsOf(w) == {c \in DOMAIN clients : clients[c].owner = w}

\* the five fields the worker checks
CheckedFields == {"exchange", "instrument", "resolution", "start_ts", "end_ts"}

WellFormed(item) == item.isdict /\ CheckedFields \subseteq DOMAIN item.f

\* a step in which w's dequeue_ohlc_work() returned, None or an item,
\* whatever the loop body did with it up to its next await
DequeueReturned(w) ==
    \/ DequeueNone(w)
    \/ \E ctor_raises \in BOOLEAN : DequeueItem(w, ctor_raises)

\* some worker's dequeue returns the head of the work queue in this step
DequeueStep == workQueue # <<>> /\ workQueue' = Tail(workQueue)

\* the step leaves a worker that took `item` at its next dequeue, no client
\* constructed and nothing put on a queue
DiscardStep(item) ==
    /\ clients' = clients
    /\ api_client' = api_client
    /\ failedQueue' = failedQueue
    /\ pc' = pc
    /\ \E w \in Workers : pc[w] = "dequeue" /\ work_item'[w] = item

\* C2: run_worker leaves its loop only when it is cancelled (or its dequeue
\* raised): nothing that happens while an item is handled ends the worker.
C2_OnlyCancellationEndsWorker ==
    \A w \in Workers :
        LeftLoop(w) =>
            \/ cancelledAt[w] \notin {"none", "close_finally"}
            \/ "dequeue" \in raised[w]

\* C3: once a worker whose fetch raised is done with the item (and was not
\* cancelled), the item is on the failed-work queue, pushed exactly once and
\* unchanged, its client has been closed and the worker is still running.
C3_FetchErrorRequeuesOnce ==
    \A w \in Workers :
        /\ raised[w] \cap {"keyerror", "fetch", "upsert"} # {}
        /\ cancelledAt[w] = "none"
        /\ work_item[w] # NoItem
        /\ Handled(w) \/ LeftLoop(w)
        => /\ pushes[w] = 1
           /\ \E i \in DOMAIN failedQueue : failedQueue[i] = work_item[w]
           /\ \E c \in ClientsOf(w) :
                  clients[c].item = work_item[w] /\ clients[c].closes >= 1
           /\ ~ LeftLoop(w)

\* C4: when a cancelled worker has exited, close has been called on every
\* client it constructed.
C4_CancelledWorkerClosedItsClients ==
    \A w \in Workers :
        pc[w] = "done" /\ cancelledAt[w] # "none" =>
            \A c \in ClientsOf(w) : clients[c].closes >= 1

\* a worker cancelled at its upsert and again while its finally block awaited
\* close(): run_worker ended with CancelledError, close having been called on
\* the clients of both items the worker had taken
C4_Witness ==
    \E w \in Workers :
        /\ pc[w] = "done"
        /\ cancelledAt[w] = "upsert"
        /\ result[w] = "raised_cancelled"
        /\ Cardinality(ClientsOf(w)) = 2
        /\ \A c \in ClientsOf(w) : clients[c].connected /\ clients[c].closes = 1

\* the outcomes logged for worker w's current item
Outcomes(w) ==
    {o \in {"discarded", "requeued", "completed"} :
        \/ o = "discarded" /\ log[w] \cap {"invalid_type", "missing_fields",
                                           "no_client", "no_config"} # {}
        \/ o = "requeued" /\ "failed" \in log[w]
        \/ o = "completed" /\ "complete" \in log[w]}

\* C5: an item a worker is done with has exactly one logged outcome:
\* discarded, requeued or completed.
C5_ExactlyOneOutcome ==
    \A w \in Workers : Handled(w) => Cardinality(Outcomes(w)) = 1

\* C6: a worker cancelled at its dequeue ends by raising CancelledError.
C6_CancelAtDequeueRaises ==
    \A w \in Workers :
        pc[w] = "done" /\ cancelledAt[w] = "dequeue" => result[w] = "raised_cancelled"

\* C7: a worker done with a well-formed item with start_ts < end_ts whose
\* exchange has a client class and a configuration (the client's constructor
\* and connect not having raised, the worker not cancelled) has connected a
\* client for it and called get_historical_ohlc at least once.
C7_EligibleItemReachesExchange ==
    \A w \in Workers :
        /\ Handled(w)
        /\ WellFormed(work_item[w])
        /\ work_item[w].f.start_ts < work_item[w].f.end_ts
        /\ work_item[w].f.exchange \in client_map \cap settings_exchanges
        /\ cancelledAt[w] = "none"
        /\ raised[w] \cap {"construct", "connect"} = {}
        => /\ \E c \in ClientsOf(w) :
                  clients[c].item = work_item[w] /\ clients[c].connected
           /\ calls[w] >= 1

\* C8: the step that dequeues an item that is no dict or lacks a checked
\* field constructs no client, puts nothing on either queue and leaves the
\* worker at its next dequeue.
C8_MalformedItemDiscarded ==
    [][DequeueStep /\ ~ WellFormed(Head(workQueue)) => DiscardStep(Head(workQueue))]_vars

C8_Witness ==
    /\ \E w \in Workers :
           /\ work_item[w] = MissingResolutionItem
           /\ pc[w] = "dequeue"
           /\ log[w] = {"missing_fields"}
    /\ clients = <<>>
    /\ failedQueue = <<>>
    /\ workQueue = <<>>

\* C9: the step that dequeues a well-formed item whose exchange has no
\* client class or no configuration constructs no client, puts nothing on
\* either queue and leaves the worker at its next dequeue.
C9_UnconfiguredItemDiscarded ==
    [][DequeueStep /\ WellFormed(Head(workQueue))
           /\ Head(workQueue).f.exchange \notin client_map \cap settings_exchanges
       => DiscardStep(Head(workQueue))]_vars

C9_Witness ==
    /\ \E w \in Workers :
           /\ work_item[w] = NoConfigItem
           /\ pc[w] = "dequeue"
           /\ log[w] = {"no_config"}
    /\ clients = <<>>
    /\ failedQueue = <<>>
    /\ workQueue = <<>>

\* the client instances some worker holds in its local api_client
HeldClients == {api_client[w] : w \in Workers} \ {0}

\* C11: a worker at its dequeue (or in the backoff sleep before it) holds no
\* client and close has been called on every client it constructed; a client
\* a worker holds was constructed by that worker for the item it is handling,
\* and no two workers hold the same client.  Step by step: a worker gets a
\* client only in the step of its dequeue, and it is an instance constructed
\* in that step for the item just dequeued; it lets go of the client only
\* after close was called on it and never takes it up again; and a client is
\* connected or closed only by the worker that holds it, while that worker
\* handles the client's item.
C11_NoClientHeldAtDequeue ==
    /\ [](/\ \A w \in Workers :
                pc[w] \in {"dequeue", "backoff"} =>
                    /\ api_client[w] = 0
                    /\ \A c \in ClientsOf(w) : clients[c].closes >= 1
          /\ \A w \in Workers :
                api_client[w] # 0 =>
                    /\ api_client[w] \in DOMAIN clients
                    /\ clients[api_client[w]].owner = w
                    /\ clients[api_client[w]].item = work_item[w]
          /\ \A w1, w2 \in Workers :
                w1 # w2 /\ api_client[w1] # 0 => api_client[w1] # api_client[w2]
          /\ \A c \in DOMAIN clients \ HeldClients : clients[c].closes >= 1)
    /\ [][/\ \A w \in Workers :
                api_client'[w] # api_client[w] =>
                    \/ /\ api_client'[w] = 0
                       /\ clients[api_client[w]].closes >= 1
                    \/ /\ api_client[w] = 0
                       /\ DequeueReturned(w)
                       /\ api_client'[w] = Len(clients) + 1
                       /\ clients' = Append(clients, NewClient(w, Head(workQueue)))
                       /\ work_item'[w] = Head(workQueue)
          /\ \A w \in Workers :
                (work_item'[w] # work_item[w] \/ DequeueReturned(w)) =>
                    api_client[w] = 0
          /\ \A c \in DOMAIN clients :
                /\ c \in DOMAIN clients'
                /\ clients'[c].owner = clients[c].owner
                /\ clients'[c].item = clients[c].item
                /\ clients'[c] # clients[c] =>
                       /\ api_client[clients[c].owner] = c
                       /\ work_item[clients[c].owner] = clients[c].item
                       /\ work_item'[clients[c].owner] = clients[c].item]_vars

\* a worker is back at its dequeue after two different items, the first
\* without a chunk to fetch and the second failed in its fetch: each had a
\* client of its own, and close was called once on each
C11_Witness ==
    \E w \in Workers :
        /\ pc[w] = "dequeue"
        /\ raised[w] = {"fetch"}
        /\ api_client[w] = 0
        /\ DOMAIN clients = {1, 2}
        /\ ClientsOf(w) = {1, 2}
        /\ clients[1].item = EmptyRangeItem
        /\ clients[2].item = GoodItem
        /\ \A c \in ClientsOf(w) : clients[c].connected /\ clients[c].closes = 1

----------------------------------------------------------------------------
(* discover_and_queue_work(exchange_name).  Datetimes are whole numbers of *)
(* milliseconds since the epoch; timedeltas are milliseconds.              *)

\* the exchange_name argument
DiscoverExchange == "deribit"

Instruments == {"BTC-PERP", "ETH-PERP"}

Whitelists ==
    {<<>>, <<"BTC-PERP">>, <<"BTC-PERP", "ETH-PERP">>, <<"ETH-PERP", "BTC-PERP">>}

ResolutionLists == {<<"1">>, <<"1", "5">>}

TargetCandles == {0, 1, 2}

\* two instants one millisecond apart
Nows == {1084002, 1084003}

\* fetchrow found no row for the instrument
NoRow == "None"

MarketTypes == {NoRow, "future"}

\* fetch_latest_ohlc_timestamp: None, or the datetime of the latest tick
NoTick == [has |-> FALSE, tick |-> 0]

Tick(t) == [has |-> TRUE, tick |-> t]

LatestTicks == {NoTick, Tick(964003), Tick(1024002), Tick(1024003)}

\* the datetimes discover_and_queue_work converts for these inputs
Instants ==
    {484002, 484003, 784002, 784003, 964002, 964003, 1024002, 1024003,
     1084002, 1084003}

\* the instants dt among them for which the double dt.timestamp() * 1000 is
\* below the whole number of milliseconds of dt, so that int() gives one less
TruncatedDown == {1024003}

\* int(dt.timestamp() * 1000)
timestamp_ms(dt) ==
    CASE dt \in TruncatedDown -> dt - 1
      [] dt \in Instants \ TruncatedDown -> dt

\* work items built without their market_type
BuildWorkItemWithoutMarketType(instrument_name, market_type, res_str, latest_db_tick) ==
    LET res_td == ResolutionMs(res_str)
    IN  IF ~ latest_db_tick.has
        THEN Dict([type |-> "BOOTSTRAP", exchange |-> DiscoverExchange,
                   instrument |-> instrument_name, resolution |-> res_str,
                   start_ts |-> timestamp_ms(now_utc - target_candles * res_td),
                   end_ts |-> timestamp_ms(now_utc)])
        ELSE LET next_expected_tick == latest_db_tick.tick + res_td
             IN  IF next_expected_tick < now_utc
                 THEN Dict([type |-> "GAP_FILL", exchange |-> DiscoverExchange,
                            instrument |-> instrument_name, resolution |-> res_str,
                            start_ts |-> timestamp_ms(next_expected_tick),
                            end_ts |-> timestamp_ms(now_utc)])
                 ELSE NoItem

\* the work_item built for one (instrument, resolution) pair, NoItem for None
BuildWorkItem(instrument_name, market_type, res_str, latest_db_tick) ==
    LET res_td == ResolutionMs(res_str)
    IN  IF ~ latest_db_tick.has
        THEN Dict([type |-> "BOOTSTRAP", exchange |-> DiscoverExchange,
                   instrument |-> instrument_name, market_type |-> market_type,
                   resolution |-> res_str,
                   start_ts |-> timestamp_ms(now_utc - target_candles * res_td),
                   end_ts |-> timestamp_ms(now_utc)])
        ELSE LET next_expected_tick == latest_db_tick.tick + res_td
             IN  IF next_expected_tick < now_utc
                 THEN Dict([type |-> "GAP_FILL", exchange |-> DiscoverExchange,
                            instrument |-> instrument_name,
                            market_type |-> market_type, resolution |-> res_str,
                            start_ts |-> timestamp_ms(next_expected_tick),
                            end_ts |-> timestamp_ms(now_utc)])
                 ELSE NoItem

NoLocals == [i |-> 0, j |-> 0, market_type |-> "", work_item |-> NoItem, tasks_added |-> 0]

\* the head of `for instrument_name in self.backfill_whitelist` at index i:
\* the fetchrow of the next instrument, or the end of the call
ForInstrument(i, locals) ==
    IF i > Len(backfill_whitelist)
    THEN /\ dpc' = "done"
         /\ dlocals' = [locals EXCEPT !.i = i, !.j = 0]
    ELSE /\ dpc' = "fetchrow"
         /\ dlocals' = [locals EXCEPT !.i = i, !.j = 0]

\* the head of `for res_str in self.resolutions` at index j
ForResolution(j, locals) ==
    IF j > Len(resolutions)
    THEN ForInstrument(locals.i + 1, locals)
    ELSE /\ dpc' = "latest"
         /\ dlocals' = [locals EXCEPT !.j = j]

\* what a discover call leaves alone
DiscoverFrame ==
    UNCHANGED <<failedQueue, store, pc, work_item, api_client, current_start_ts,
                ohlc_models, exc, result, clients, log, raised, pushes, calls,
                cancelledAt, oracle, log_formats, backfill_whitelist, resolutions,
                target_candles, now_utc, instruments, latest_db_ticks, tvars>>

\* a call that acquires the pool without looking at the whitelist
DiscoverStartWithoutCheck ==
    /\ dpc = "start"
    /\ dpc' = "get_pool"
    /\ UNCHANGED <<workQueue, enqueued, dlocals, reads>>
    /\ DiscoverFrame

\* the call starts: an empty whitelist returns at once, otherwise
\* datetime.now(UTC) is read and get_pool() is awaited
DiscoverStart ==
    /\ dpc = "start"
    /\ dpc' = IF backfill_whitelist = <<>> THEN "done" ELSE "get_pool"
    /\ UNCHANGED <<workQueue, enqueued, dlocals, reads>>
    /\ DiscoverFrame

\* get_pool() returns
GetPoolReturns ==
    /\ dpc = "get_pool"
    /\ reads' = Append(reads, <<"get_pool">>)
    /\ ForInstrument(1, dlocals)
    /\ UNCHANGED <<workQueue, enqueued>>
    /\ DiscoverFrame

\* a fetchrow step that ends the call at the first instrument without a row
FetchrowReturnsStopping ==
    /\ dpc = "fetchrow"
    /\ LET instrument_name == backfill_whitelist[dlocals.i]
           instrument_details == instruments[instrument_name]
       IN  /\ reads' = Append(reads, <<"fetchrow", instrument_name>>)
           /\ IF instrument_details = NoRow
              THEN dpc' = "done" /\ dlocals' = dlocals
              ELSE ForResolution(1, [dlocals EXCEPT !.market_type = instrument_details])
    /\ UNCHANGED <<workQueue, enqueued>>
    /\ DiscoverFrame

\* conn.fetchrow() returns the instrument's row, or None
FetchrowReturns ==
    /\ dpc = "fetchrow"
    /\ LET instrument_name == backfill_whitelist[dlocals.i]
           instrument_details == instruments[instrument_name]
       IN  /\ reads' = Append(reads, <<"fetchrow", instrument_name>>)
           /\ IF instrument_details = NoRow
              THEN ForInstrument(dlocals.i + 1, dlocals)
              ELSE ForResolution(1, [dlocals EXCEPT !.market_type = instrument_details])
    /\ UNCHANGED <<workQueue, enqueued>>
    /\ DiscoverFrame

\* fetch_latest_ohlc_timestamp() returns: the work item is built and, if
\* there is one, enqueue_ohlc_work is awaited
FetchLatestReturns ==
    /\ dpc = "latest"
    /\ LET instrument_name == backfill_whitelist[dlocals.i]
           res_str == resolutions[dlocals.j]
           item == BuildWorkItem(instrument_name, dlocals.market_type, res_str,
                                 latest_db_ticks[<<instrument_name, res_str>>])
       IN  /\ reads' = Append(reads, <<"latest", instrument_name, res_str>>)
           /\ IF item # NoItem
              THEN /\ dpc' = "enqueue"
                   /\ dlocals' = [dlocals EXCEPT !.work_item = item]
              ELSE ForResolution(dlocals.j + 1, dlocals)
    /\ UNCHANGED <<workQueue, enqueued>>
    /\ DiscoverFrame

\* enqueue_ohlc_work() returns
EnqueueReturns ==
    /\ dpc = "enqueue"
    /\ workQueue' = Append(workQueue, dlocals.work_item)
    /\ enqueued' = enqueued + 1
    /\ ForResolution(dlocals.j + 1,
                     [dlocals EXCEPT !.work_item = NoItem, !.tasks_added = @ + 1])
    /\ UNCHANGED reads
    /\ DiscoverFrame

InitDiscover ==
    /\ NoTransform
    /\ workQueue = <<>>
    /\ failedQueue = <<>>
    /\ store = EmptyStore
    /\ pc = [w \in Workers |-> "done"]
    /\ work_item = [w \in Workers |-> NoItem]
    /\ api_client = [w \in Workers |-> 0]
    /\ current_start_ts = [w \in Workers |-> 0]
    /\ ohlc_models = [w \in Workers |-> <<>>]
    /\ exc = [w \in Workers |-> "none"]
    /\ result = [w \in Workers |-> "running"]
    /\ clients = <<>>
    /\ log = [w \in Workers |-> {}]
    /\ raised = [w \in Workers |-> {}]
    /\ pushes = [w \in Workers |-> 0]
    /\ calls = [w \in Workers |-> 0]
    /\ cancelledAt = [w \in Workers |-> "none"]
    /\ oracle = <<>>
    /\ enqueued = 0
    /\ log_formats = TRUE
    /\ backfill_whitelist \in Whitelists
    /\ resolutions \in ResolutionLists
    /\ target_candles \in TargetCandles
    /\ now_utc \in Nows
    /\ instruments \in [Instruments -> MarketTypes]
    /\ latest_db_ticks \in [Instruments \X {"1", "5"} -> LatestTicks]
    /\ dpc = "start"
    /\ dlocals = NoLocals
    /\ reads = <<>>

NextDiscover ==
    \/ DiscoverStart
    \/ GetPoolReturns
    \/ FetchrowReturns
    \/ FetchLatestReturns
    \/ EnqueueReturns

SpecDiscover == InitDiscover /\ [][NextDiscover]_vars

----------------------------------------------------------------------------
(* Properties of discover_and_queue_work. *)

Whitelisted(inst) == \E i \in DOMAIN backfill_whitelist : backfill_whitelist[i] = inst

Configured(res) == \E j \in DOMAIN resolutions : resolutions[j] = res

\* the positions of the work queue holding an item for the pair
ItemsFor(inst, res) ==
    {k \in DOMAIN workQueue :
        /\ workQueue[k].f.instrument = inst
        /\ workQueue[k].f.resolution = res}

\* the latest-tick queries made for an instrument
LatestQueriesFor(inst) ==
    {k \in DOMAIN reads : reads[k][1] = "latest" /\ reads[k][2] = inst}

\* the pairs the call handles: whitelisted, with a row, resolution configured
Discoverable(inst, res) ==
    Whitelisted(inst) /\ instruments[inst] # NoRow /\ Configured(res)

\* C12: with an empty whitelist the call makes no store access and enqueues
\* nothing.
C12_EmptyWhitelistReadsNothing ==
    backfill_whitelist = <<>> =>
        /\ reads = <<>>
        /\ workQueue = <<>>
        /\ dpc \in {"start", "done"}

C12_Witness == backfill_whitelist = <<>> /\ dpc = "done" /\ instruments["BTC-PERP"] # NoRow

\* C13: after a discover call, a discoverable pair without a persisted tick
\* has exactly one item on the queue: a BOOTSTRAP with end_ts = now and
\* end_ts - start_ts = target_candles * duration.
C13_BootstrapItem ==
    \A inst \in Instruments, res \in {"1", "5"} :
        /\ dpc = "done"
        /\ Discoverable(inst, res)
        /\ ~ latest_db_ticks[<<inst, res>>].has
        => /\ Cardinality(ItemsFor(inst, res)) = 1
           /\ \A k \in ItemsFor(inst, res) :
                  /\ workQueue[k].f.type = "BOOTSTRAP"
                  /\ workQueue[k].f.end_ts = now_utc
                  /\ workQueue[k].f.end_ts - workQueue[k].f.start_ts
                         = target_candles * ResolutionMs(res)

\* C14: after a discover call, a discoverable pair with a latest tick has one
\* GAP_FILL item with start_ts = latest_tick + duration and end_ts = now if
\* latest_tick + duration < now, and no item otherwise.
C14_GapFillItem ==
    \A inst \in Instruments, res \in {"1", "5"} :
        /\ dpc = "done"
        /\ Discoverable(inst, res)
        /\ latest_db_ticks[<<inst, res>>].has
        => LET next == latest_db_ticks[<<inst, res>>].tick + ResolutionMs(res)
           IN  IF next < now_utc
               THEN /\ Cardinality(ItemsFor(inst, res)) = 1
                    /\ \A k \in ItemsFor(inst, res) :
                           /\ workQueue[k].f.type = "GAP_FILL"
                           /\ workQueue[k].f.start_ts = next
                           /\ workQueue[k].f.end_ts = now_utc
               ELSE ItemsFor(inst, res) = {}

\* C15: after a discover call, a whitelisted instrument without a row has no
\* item on the queue and no latest-tick query was made for it, while every
\* discoverable pair was queried and has its item unless it is current.
C15_MissingInstrumentSkipped ==
    dpc = "done" =>
        /\ \A inst \in Instruments :
               Whitelisted(inst) /\ instruments[inst] = NoRow =>
                   /\ \A res \in {"1", "5"} : ItemsFor(inst, res) = {}
                   /\ LatestQueriesFor(inst) = {}
        /\ \A inst \in Instruments, res \in {"1", "5"} :
               Discoverable(inst, res) =>
                   /\ \E k \in LatestQueriesFor(inst) : reads[k][3] = res
                   /\ \/ ItemsFor(inst, res) # {}
                      \/ /\ latest_db_ticks[<<inst, res>>].has
                         /\ latest_db_ticks[<<inst, res>>].tick + ResolutionMs(res)
                                >= now_utc

\* the instrument without a row comes first, the one after it got its items
C15_Witness ==
    /\ dpc = "done"
    /\ backfill_whitelist = <<"ETH-PERP", "BTC-PERP">>
    /\ instruments["ETH-PERP"] = NoRow
    /\ instruments["BTC-PERP"] # NoRow
    /\ resolutions = <<"1", "5">>
    /\ Len(workQueue) = 2
    /\ workQueue[1].f.type = "GAP_FILL"
    /\ workQueue[2].f.type = "BOOTSTRAP"

\* C16: every item on the queue has start_ts <= end_ts and carries exchange,
\* instrument, market_type, resolution, start_ts and end_ts.
C16_DiscoveredItemsWellFormed ==
    \A k \in DOMAIN workQueue :
        /\ workQueue[k].isdict
        /\ {"exchange", "instrument", "market_type", "resolution", "start_ts",
            "end_ts"} \subseteq DOMAIN workQueue[k].f
        /\ workQueue[k].f.start_ts <= workQueue[k].f.end_ts
        /\ workQueue[k].f.type \in {"BOOTSTRAP", "GAP_FILL"}

\* a BOOTSTRAP of zero candles (start_ts = end_ts) and a GAP_FILL of one
\* millisecond are on the queue
C16_Witness ==
    /\ dpc = "done"
    /\ \E k \in DOMAIN workQueue :
           /\ workQueue[k].f.type = "BOOTSTRAP"
           /\ workQueue[k].f.start_ts = workQueue[k].f.end_ts
    /\ \E k \in DOMAIN workQueue :
           /\ workQueue[k].f.type = "GAP_FILL"
           /\ workQueue[k].f.end_ts - workQueue[k].f.start_ts = 1

----------------------------------------------------------------------------
(* Properties of the paginated fetch. *)

\* C17: the chunk size is 1000 durations of the resolution, and the window
\* [cursor, chunk_end] of every request in flight has chunk_end =
\* min(end_ts, cursor + chunk size), cursor < chunk_end <= end_ts and
\* chunk_end - cursor <= chunk size.
C17_RequestWindow ==
    \A w \in Workers :
        pc[w] = "fetch" =>
            LET item == work_item[w]
                cursor == current_start_ts[w]
                chunk_size_ms == 1000 * ResolutionMs(item.f.resolution)
                chunk_end == current_end_ts(item, cursor)
            IN  /\ chunk_advance_ms(item.f.resolution) = chunk_size_ms
                /\ chunk_end = Min(item.f.end_ts, cursor + chunk_size_ms)
                /\ cursor < chunk_end
                /\ chunk_end <= item.f.end_ts
                /\ chunk_end - cursor <= chunk_size_ms

\* the second request of a two-chunk range, after a first chunk without
\* data: its window ends at end_ts, short of a whole chunk
C17_Witness ==
    /\ pc[Fetcher] = "fetch"
    /\ work_item[Fetcher] = TwoChunkItem
    /\ current_start_ts[Fetcher] = 60000002
    /\ calls[Fetcher] = 2
    /\ current_end_ts(TwoChunkItem, current_start_ts[Fetcher]) = TwoChunkItem.f.end_ts

----------------------------------------------------------------------------
(* Properties of the batches that reach the store. *)

\* the values a candle's tick, and its prices and volume, may validly hold
ValidTickKinds == {"int", "numstr"}

ValidNumberKinds == {"int", "numstr", "frac"}

\* a dict payload with all six arrays, all lists of one length, every value
\* valid for its field
CompletePayload(resp) ==
    /\ resp.kind = "dict"
    /\ Six \subseteq DOMAIN resp.d
    /\ \A c \in Six : resp.d[c].islist
    /\ \A c \in Six : Len(resp.d[c].items) = Len(resp.d.ticks.items)
    /\ \A i \in 1..Len(resp.d.ticks.items) :
           /\ resp.d.ticks.items[i].t \in ValidTickKinds
           /\ \A c \in Six \ {"ticks"} : resp.d[c].items[i].t \in ValidNumberKinds

\* C18: the fetcher goes on to an upsert only with a complete valid payload,
\* and then with exactly one record per tick of that payload, in order; a
\* payload with a defect leads to no upsert for its chunk; and the store
\* changes only by the upsert of such a batch.
C18_OnlyCompleteBatchesStored ==
    [][/\ \A w \in Workers :
              (pc[w] = "fetch" /\ pc'[w] = "upsert") =>
                  LET resp == oracle[current_start_ts[w]]
                  IN  /\ CompletePayload(resp)
                      /\ Len(ohlc_models'[w]) = Len(resp.d.ticks.items)
                      /\ \A i \in 1..Len(resp.d.ticks.items) :
                             ohlc_models'[w][i].tick = resp.d.ticks.items[i].v
       /\ store' # store =>
              \E w \in Workers :
                  /\ pc[w] = "upsert"
                  /\ ohlc_models[w] # <<>>
                  /\ DOMAIN store' =
                         DOMAIN store \cup {KeyOf(ohlc_models[w][i]) :
                                               i \in 1..Len(ohlc_models[w])}]_vars

\* both copies of the item were answered two candles of which the second
\* close is no number: neither the bad candle nor the good one was stored
C18_Witness ==
    /\ ProcessedTwice
    /\ \A w \in Workers : calls[w] = 1
    /\ oracle[IdemItem.f.start_ts] =
           RespDict(Alter(Candles(<<IdemItem.f.start_ts, IdemItem.f.start_ts + 1>>, 1).d,
                          [col |-> "close", kind |-> "junk", pos |-> 2]))
    /\ store = EmptyStore

----------------------------------------------------------------------------
(* Properties of transform_tv_data_to_ohlc_models. *)

\* the float a valid payload value stands for
NumberOf(raw) == [int |-> raw.v, frac |-> IF raw.t = "frac" THEN 5 ELSE 0]

\* C19: for a dict payload whose six arrays are lists of one length n with
\* valid values, the call returns exactly n records in input order, record i
\* holding the i-th tick, open, high, low, close and volume and the
\* resolution the call was given.
C19_ValidPayloadTransformed ==
    (CompletePayload(tv_payload) /\ (transformed.returned \/ transformed.raised)) =>
        LET d == tv_payload.d
            records == transformed.records
        IN  /\ transformed.returned
            /\ Len(records) = Len(d.ticks.items)
            /\ \A i \in 1..Len(d.ticks.items) :
                   /\ records[i].tick = d.ticks.items[i].v
                   /\ records[i].open = NumberOf(d.open.items[i])
                   /\ records[i].high = NumberOf(d.high.items[i])
                   /\ records[i].low = NumberOf(d.low.items[i])
                   /\ records[i].close = NumberOf(d.close.items[i])
                   /\ records[i].volume = NumberOf(d.volume.items[i])
                   /\ records[i].resolution = tv_args.resolution_str

\* ticks [1000, 2000] with close [2, 3] came back as two records, tick 1000
\* with close 2 and tick 2000 with close 3
C19_Witness ==
    /\ transformed.returned
    /\ tv_payload = RespDict(ExamplePayload(2))
    /\ tv_args.resolution_str = "5"
    /\ Len(transformed.records) = 2
    /\ transformed.records[1].tick = 1000
    /\ transformed.records[1].close = PyFloat(2)
    /\ transformed.records[2].tick = 2000
    /\ transformed.records[2].close = PyFloat(3)
    /\ transformed.records[2].resolution = "5"

\* C20: the call never raises; it returns a sequence, and the empty one
\* whenever the input is no dict, one of the six arrays is missing or no
\* list, the arrays differ in length, or an element fails validation.
C20_TransformerNeverRaises ==
    /\ ~ transformed.raised
    /\ transformed.returned =>
           /\ DOMAIN transformed.records = 1..Len(transformed.records)
           /\ ~ CompletePayload(tv_payload) => transformed.records = <<>>

----------------------------------------------------------------------------
(* One call of _perform_paginated_ohlc_fetch with a scripted exchange      *)
(* client, as the tests build it: an AsyncMock whose side_effect is a list *)
(* of payloads, the n-th call getting the n-th payload and a call past the *)
(* end of the list raising StopAsyncIteration.  oracle holds the list.     *)

\* the payloads a script is made of: the data-free ones (an empty tick
\* series among them), a payload that is no dict, a tick series without
\* prices, single candles around the range, a batch in and out of tick order
\* and a candle whose close is no number, without and with braces in its repr
ScriptResponses(item) ==
    {RespNone, RespEmptyDict, RespNoTicks, RespEmptyTicks, RespNonDict,
     RespTicksOnly(item.f.start_ts)}
    \cup {Candles(<<t>>, 1) : t \in FetchTicks(item)}
    \cup {Candles(<<item.f.start_ts, item.f.end_ts - 1>>, 1),
          Candles(<<item.f.end_ts - 1, item.f.start_ts>>, 1),
          RespDict(Alter(Candles(<<item.f.start_ts>>, 1).d,
                         [col |-> "close", kind |-> "junk", pos |-> 1])),
          RespDict(Alter(Candles(<<item.f.start_ts>>, 1).d,
                         [col |-> "close", kind |-> "braces", pos |-> 1]))}

\* the scripts are one payload shorter than the calls that are counted
Scripts(item) == [1..(MaxCalls - 1) -> ScriptResponses(item)]

InitScript ==
    /\ NoDiscovery
    /\ NoTransform
    /\ workQueue = <<>>
    /\ failedQueue = <<>>
    /\ store = EmptyStore
    /\ \E item \in FetchItems :
           /\ work_item = [w \in Workers |-> IF w = Fetcher THEN item ELSE NoItem]
           /\ clients = <<NewClient(Fetcher, item)>>
           /\ oracle \in Scripts(item)
    /\ pc = [w \in Workers |-> IF w = Fetcher THEN "connect" ELSE "done"]
    /\ api_client = [w \in Workers |-> IF w = Fetcher THEN 1 ELSE 0]
    /\ current_start_ts = [w \in Workers |-> 0]
    /\ ohlc_models = [w \in Workers |-> <<>>]
    /\ exc = [w \in Workers |-> "none"]
    /\ result = [w \in Workers |-> "running"]
    /\ log = [w \in Workers |-> {}]
    /\ raised = [w \in Workers |-> {}]
    /\ pushes = [w \in Workers |-> 0]
    /\ calls = [w \in Workers |-> 0]
    /\ cancelledAt = [w \in Workers |-> "none"]
    /\ enqueued = 0
    /\ log_formats \in BOOLEAN

\* get_historical_ohlc() returns the next payload of the script
ScriptedReturns(w) ==
    /\ pc[w] = "fetch"
    /\ calls[w] \in DOMAIN oracle
    /\ GetHistoricalReturns(w, oracle[calls[w]])

\* the script is used up: the mock raises
ScriptedRaises(w) ==
    /\ pc[w] = "fetch"
    /\ calls[w] \notin DOMAIN oracle
    /\ GetHistoricalRaises(w)

NextScript ==
    /\ \/ ConnectReturns(Fetcher)
       \/ ScriptedReturns(Fetcher)
       \/ ScriptedRaises(Fetcher)
       \/ BulkUpsertReturns(Fetcher)
       \/ PacingReturns(Fetcher)
    /\ UNCHANGED <<dvars, tvars>>

SpecScript == InitScript /\ [][NextScript]_vars

----------------------------------------------------------------------------
(* Properties of the paginated fetch with a scripted client. *)

\* not response or not response.get("ticks"): an empty payload, or one whose
\* tick series is missing, empty or otherwise falsy
DataFree(resp) ==
    \/ ~ Truthy(resp)
    \/ resp.kind = "dict" /\ ~ DictGet(resp.d, "ticks", Scalar(FALSE)).truthy

\* a payload of records of which the last reaches end_ts
ReachesEnd(resp, item) ==
    /\ CompletePayload(resp)
    /\ resp.d.ticks.items # <<>>
    /\ resp.d.ticks.items[Len(resp.d.ticks.items)].v + 1 >= item.f.end_ts

\* the range fits in one chunk
OneChunk(item) ==
    /\ item.f.start_ts < item.f.end_ts
    /\ item.f.end_ts - item.f.start_ts <= CandlesPerChunk * ResolutionMs(item.f.resolution)

\* the fetch has returned to run_worker, which awaits close()
FetchReturned(w) == pc[w] = "close" /\ "complete" \in log[w]

\* C21: for a one-chunk item, when the script is k data-free payloads
\* followed by a payload whose records reach end_ts, the fetch that has
\* returned has called the client exactly k + 1 times.
C21_DataFreeChunkDoesNotEndItem ==
    \A k \in 0..(Len(oracle) - 1) :
        (/\ OneChunk(work_item[Fetcher])
         /\ \A j \in 1..k : DataFree(oracle[j])
         /\ ReachesEnd(oracle[k + 1], work_item[Fetcher])
         /\ FetchReturned(Fetcher))
            => calls[Fetcher] = k + 1

----------------------------------------------------------------------------
(* Properties of run_worker's loop. *)

\* everything run_worker's task w holds
WorkerView(w) ==
    <<pc[w], work_item[w], api_client[w], current_start_ts[w], ohlc_models[w],
      exc[w], result[w], log[w], raised[w], pushes[w], calls[w], cancelledAt[w]>>

\* C22: a dequeue that returns no item puts the worker into its backoff
\* sleep, and the worker gets from that sleep to its next dequeue only by
\* the sleep returning: no dequeue follows an empty one without the sleep.
C22_EmptyDequeueBacksOff ==
    [][\A w \in Workers :
           /\ (workQueue = <<>> /\ DequeueReturned(w)) =>
                  /\ pc'[w] = "backoff"
                  /\ work_item'[w] = NoItem
                  /\ log'[w] = log[w]
           /\ (pc[w] = "dequeue" /\ workQueue = <<>> /\ pc'[w] = "dequeue") =>
                  WorkerView(w)' = WorkerView(w)
           /\ (pc[w] = "backoff" /\ pc'[w] # "backoff"
                   /\ cancelledAt'[w] = cancelledAt[w]) =>
                  pc'[w] = "dequeue" /\ BackoffReturns(w)
           /\ (pc[w] # "dequeue" /\ pc'[w] = "dequeue" /\ work_item[w] = NoItem) =>
                  pc[w] = "backoff"]_vars

\* both workers found the queue empty and sleep
C22_Witness ==
    /\ workQueue = <<>>
    /\ enqueued = 0
    /\ \A w \in Workers : pc[w] = "backoff"

----------------------------------------------------------------------------
(* Properties of the fetch loop's cursor. *)

\* C23: every iteration of the fetch loop leaves the cursor strictly greater
\* than it found it, in the data-free branch, the zero-records branch and
\* the records branch; so the cursor never drops below start_ts.
C23_CursorStrictlyAdvances ==
    [][/\ (pc[Fetcher] = "fetch" /\ pc'[Fetcher] = "pacing") =>
              current_start_ts'[Fetcher] > current_start_ts[Fetcher]
       /\ (pc[Fetcher] = "upsert" /\ pc'[Fetcher] = "pacing") =>
              /\ current_start_ts'[Fetcher] > current_start_ts[Fetcher]
              /\ current_start_ts'[Fetcher] >= work_item[Fetcher].f.start_ts]_vars

----------------------------------------------------------------------------
(* Properties of one chunk of the scripted fetch. *)

\* the payload the request in flight is answered with
Answer(w) == oracle[calls[w]]

\* the payload is a dict with a non-empty tick series that does not make a
\* complete valid batch: the transformer returns no record for it
ZeroRecords(resp) ==
    /\ resp.kind = "dict"
    /\ "ticks" \in DOMAIN resp.d
    /\ resp.d.ticks.truthy
    /\ ~ CompletePayload(resp)

\* a non-empty payload that is no dict (a string, a list): it has no tick
\* series, and the transformer returns no record for it
NonMapping(resp) == Truthy(resp) /\ resp.kind # "dict"

\* min(end_ts, cursor + 1000 candles)
ChunkEnd(item, cursor) ==
    IF cursor + CandlesPerChunk * ResolutionMs(item.f.resolution) < item.f.end_ts
    THEN cursor + CandlesPerChunk * ResolutionMs(item.f.resolution)
    ELSE item.f.end_ts

\* C24: when the answer to a chunk is empty, has no tick series or
\* transforms to zero records, the fetcher issues no upsert, sets the cursor
\* to chunk_end + 1, raises nothing, and after the pacing delay requests the
\* next chunk, or returns if the cursor has reached end_ts.
C24_DataFreeChunkSkipped ==
    [][/\ (/\ pc[Fetcher] = "fetch"
           /\ calls[Fetcher] \in DOMAIN oracle
           /\ \/ DataFree(Answer(Fetcher))
              \/ NonMapping(Answer(Fetcher))
              \/ ZeroRecords(Answer(Fetcher))) =>
              /\ pc'[Fetcher] = "pacing"
              /\ store' = store
              /\ raised' = raised
              /\ current_start_ts'[Fetcher] =
                     ChunkEnd(work_item[Fetcher], current_start_ts[Fetcher]) + 1
              /\ calls' = calls
       /\ pc[Fetcher] = "pacing" =>
              /\ store' = store
              /\ current_start_ts' = current_start_ts
              /\ IF current_start_ts[Fetcher] >= work_item[Fetcher].f.end_ts
                 THEN pc'[Fetcher] = "close" /\ calls' = calls
                 ELSE pc'[Fetcher] = "fetch"]_vars

\* the answer transforms to at least one record
HasRecords(resp) == CompletePayload(resp) /\ resp.d.ticks.items # <<>>

\* the tick of the last candle of a payload
LastTick(resp) == resp.d.ticks.items[Len(resp.d.ticks.items)].v

\* C25: when the answer to a chunk transforms to at least one record, the
\* fetcher awaits the upsert of exactly that batch with the cursor and the
\* call count untouched, and when the upsert has returned the batch is in
\* the store and the cursor is the last record's tick + 1; the pacing delay
\* that follows ends the loop exactly when that cursor is >= end_ts.
C25_UpsertThenAdvance ==
    [][/\ (/\ pc[Fetcher] = "fetch"
           /\ calls[Fetcher] \in DOMAIN oracle
           /\ HasRecords(Answer(Fetcher))) =>
              /\ pc'[Fetcher] = "upsert"
              /\ Len(ohlc_models'[Fetcher]) = Len(Answer(Fetcher).d.ticks.items)
              /\ \A i \in 1..Len(ohlc_models'[Fetcher]) :
                     ohlc_models'[Fetcher][i].tick = Answer(Fetcher).d.ticks.items[i].v
              /\ store' = store
              /\ current_start_ts' = current_start_ts
              /\ calls' = calls
       /\ pc[Fetcher] = "upsert" =>
              /\ HasRecords(Answer(Fetcher))
              /\ pc'[Fetcher] = "pacing"
              /\ store' = bulk_upsert_ohlc(store, records_for_db(ohlc_models[Fetcher]))
              /\ \A i \in 1..Len(ohlc_models[Fetcher]) :
                     KeyOf(ohlc_models[Fetcher][i]) \in DOMAIN store'
              /\ current_start_ts'[Fetcher] = LastTick(Answer(Fetcher)) + 1
              /\ calls' = calls
       /\ (pc[Fetcher] = "pacing" /\ HasRecords(Answer(Fetcher))) =>
              /\ current_start_ts[Fetcher] = LastTick(Answer(Fetcher)) + 1
              /\ (pc'[Fetcher] = "close") <=>
                     (LastTick(Answer(Fetcher)) + 1 >= work_item[Fetcher].f.end_ts)
              /\ (pc'[Fetcher] = "fetch") <=>
                     (LastTick(Answer(Fetcher)) + 1 < work_item[Fetcher].f.end_ts)]_vars

\* the range [1, 3) answered by the candles of ticks 1 and 2: both are stored,
\* the cursor is 3 and the fetch has returned after one call
C25_Witness ==
    /\ work_item[Fetcher] = GoodItem
    /\ oracle[1] = Candles(<<1, 2>>, 1)
    /\ pc[Fetcher] = "close"
    /\ calls[Fetcher] = 1
    /\ current_start_ts[Fetcher] = 3
    /\ Cardinality(DOMAIN store) = 2

----------------------------------------------------------------------------
(* Properties of what the fetch persists. *)

\* C26: every candle the fetcher has persisted for its work item has its
\* tick in the item's half-open range, start_ts <= tick < end_ts, whatever
\* ticks the exchange client returned.
C26_PersistedTicksInRange ==
    \A k \in DOMAIN store :
        /\ work_item[Fetcher].f.start_ts <= store[k].tick
        /\ store[k].tick < work_item[Fetcher].f.end_ts

----------------------------------------------------------------------------
(* Properties of the failed-work queue and of the clients' closing. *)

\* the calls whose exception means that construction, connect or the
\* paginated fetch raised for the item
FetchFailures == {"construct", "connect", "keyerror", "fetch", "upsert"}

\* C27: an item is put on the failed-work queue only if client construction,
\* connect or the paginated fetch raised for it; an item whose paginated
\* fetch ran to completion is never put there.
C27_OnlyFailedFetchRequeued ==
    [][\A w \in Workers :
           (pc[w] = "push_failed" /\ failedQueue' # failedQueue
                /\ pushes'[w] # pushes[w]) =>
               /\ raised[w] \cap FetchFailures # {}
               /\ "complete" \notin log[w]]_vars

\* C28: close is called at most once on every client instance a worker
\* created, on every path.
C28_CloseCalledAtMostOnce ==
    \A c \in DOMAIN clients : clients[c].closes <= 1

----------------------------------------------------------------------------
(* The discoverer and the worker pool on the same queues: one call of      *)
(* discover_and_queue_work for one whitelisted instrument and resolution,  *)
(* and the workers of the pool taking what is on the work queue: the item  *)
(* an earlier producer left there and the item the call enqueues behind it.*)

\* what the work queue holds when the call starts: an item the workers
\* discard (malformed, or for an exchange without configuration) or one
\* they fetch
Backlogs == {<<PartialItem>>, <<NoConfigItem>>, <<GoodItem>>}

InitSystem ==
    /\ NoTransform
    /\ workQueue \in Backlogs
    /\ failedQueue = <<>>
    /\ store = EmptyStore
    /\ pc = [w \in Workers |-> "dequeue"]
    /\ work_item = [w \in Workers |-> NoItem]
    /\ api_client = [w \in Workers |-> 0]
    /\ current_start_ts = [w \in Workers |-> 0]
    /\ ohlc_models = [w \in Workers |-> <<>>]
    /\ exc = [w \in Workers |-> "none"]
    /\ result = [w \in Workers |-> "running"]
    /\ clients = <<>>
    /\ log = [w \in Workers |-> {}]
    /\ raised = [w \in Workers |-> {}]
    /\ pushes = [w \in Workers |-> 0]
    /\ calls = [w \in Workers |-> 0]
    /\ cancelledAt = [w \in Workers |-> "none"]
    /\ oracle = <<>>
    /\ enqueued = 1
    /\ log_formats \in BOOLEAN
    /\ backfill_whitelist = <<"BTC-PERP">>
    /\ resolutions = <<"1">>
    /\ target_candles = 1
    /\ now_utc = 1084003
    /\ instruments \in {t \in [Instruments -> MarketTypes] : t["ETH-PERP"] = "future"}
    /\ latest_db_ticks \in [Instruments \X {"1", "5"} -> {NoTick}]
    /\ dpc = "start"
    /\ dlocals = NoLocals
    /\ reads = <<>>

NextSystem ==
    \/ NextDiscover
    \/ (\E w \in Workers : WorkerStep(w)) /\ UNCHANGED <<dvars, tvars>>

SpecSystem == InitSystem /\ [][NextSystem]_vars

----------------------------------------------------------------------------
(* Properties of the two queues. *)

\* C29: a worker never adds to the work queue: each of its steps leaves the
\* queue as it is, except that the return of its dequeue removes the head
\* and leaves the rest as it was, whether the item is then fetched or
\* discarded; only the return of enqueue_failed_ohlc_work in a worker's
\* handler adds to the failed-work queue, and it adds that worker's item;
\* the discoverer only appends the item it built to the work queue and
\* writes neither the failed-work queue nor the store.
C29_QueueWriters ==
    [][/\ \A w \in Workers :
              WorkerStep(w) =>
                  /\ IF DequeueReturned(w) /\ workQueue # <<>>
                     THEN workQueue' = Tail(workQueue)
                     ELSE workQueue' = workQueue
                  /\ \/ failedQueue' = failedQueue
                     \/ /\ pc[w] = "push_failed"
                        /\ "failed" \in log[w]
                        /\ failedQueue' = Append(failedQueue, work_item[w])
       /\ (DequeueStep /\ \/ ~ WellFormed(Head(workQueue))
                          \/ Head(workQueue).f.exchange
                                 \notin client_map \cap settings_exchanges) =>
              /\ workQueue' = Tail(workQueue)
              /\ failedQueue' = failedQueue
              /\ store' = store
       /\ failedQueue' # failedQueue => \E w \in Workers : WorkerStep(w)
       /\ NextDiscover =>
              /\ failedQueue' = failedQueue
              /\ store' = store
              /\ \/ workQueue' = workQueue
                 \/ /\ dpc = "enqueue"
                    /\ workQueue' = Append(workQueue, dlocals.work_item)
       /\ Len(workQueue') > Len(workQueue) => NextDiscover]_vars

\* the discoverer has enqueued its item behind a malformed one and returned;
\* one worker discarded the malformed item while the discovered one was
\* waiting behind it, the other took the discovered item, failed at it and
\* put it on the failed-work queue
C29_Witness ==
    /\ dpc = "done"
    /\ enqueued = 2
    /\ workQueue = <<>>
    /\ Len(failedQueue) = 1
    /\ failedQueue[1].f.type = "BOOTSTRAP"
    /\ \E w1, w2 \in Workers :
           /\ work_item[w1] = PartialItem
           /\ log[w1] = {"missing_fields"}
           /\ pc[w1] = "dequeue"
           /\ work_item[w2] = failedQueue[1]
           /\ pushes[w2] = 1

====
